---- MODULE Spec2Model ----
(***************************************************************************)
(* SmartSwitcher: the layout_switcher engine (modules/layout_switcher) and *)
(* the Windows platform calls it drives (platform/src/windows.rs).         *)
(*                                                                         *)
(* Characters are Unicode code points (Rust char), strings are sequences   *)
(* of code points, virtual-key codes are the integers of the Win32 API.    *)
(* f32 ratios vowels/letters are kept as the pair of counters and compared *)
(* with a percentage by cross-multiplication: for the word lengths that    *)
(* occur the f32 quotient and the f32 literal order exactly as the         *)
(* rationals do.                                                           *)
(***************************************************************************)
EXTENDS Integers, Sequences, FiniteSets, TLC

\* ------------------------------------------------------------------------
\* Characters and strings
\* ------------------------------------------------------------------------

is_ascii_uppercase(ch) == ch \in 65..90

is_ascii_lowercase(ch) == ch \in 97..122

is_ascii_alphabetic(ch) == is_ascii_uppercase(ch) \/ is_ascii_lowercase(ch)

to_ascii_lowercase(ch) == IF is_ascii_uppercase(ch) THEN ch + 32 ELSE ch

to_ascii_uppercase(ch) == IF is_ascii_lowercase(ch) THEN ch - 32 ELSE ch

\* char::is_alphabetic on the code points that occur: ASCII letters and the
\* Cyrillic letters U+0410..U+044F, U+0401, U+0451.
is_alphabetic(ch) ==
    \/ is_ascii_alphabetic(ch)
    \/ ch \in 1040..1103
    \/ ch \in {1025, 1105}

\* str::to_ascii_lowercase
LowerStr(s) == [i \in 1..Len(s) |-> to_ascii_lowercase(s[i])]

\* str::contains
Contains(hay, needle) ==
    \E i \in 0..(Len(hay) - Len(needle)) :
        \A j \in 1..Len(needle) : hay[i + j] = needle[j]

\* Number of positions of s whose character satisfies the set membership.
CountIn(s, S) == Cardinality({i \in 1..Len(s) : s[i] \in S})

\* ------------------------------------------------------------------------
\* Language identifiers
\* ------------------------------------------------------------------------

LANG_EN == 1033     \* 0x0409

LANG_RU == 1049     \* 0x0419

LANG_MASK == 1023   \* 0x03FF

\* lang_id & 0x03FF on a u16
primary_lang_id(lang_id) == lang_id % (LANG_MASK + 1)

\* The identifier compared without masking its sublanguage bits
is_cyrillic_lang_id_unmasked(lang_id) == lang_id \in {1049, 1058, 1059}

\* matches!(primary_lang_id(lang_id), 0x0019 | 0x0022 | 0x0023)
is_cyrillic_lang_id(lang_id) == primary_lang_id(lang_id) \in {25, 34, 35}

\* ------------------------------------------------------------------------
\* Heuristics (free functions of layout_switcher)
\* ------------------------------------------------------------------------

is_ascii_word(s) == Len(s) > 0 /\ \A i \in 1..Len(s) : is_ascii_alphabetic(s[i])

\* QWERTY -> JCUKEN by key position; the match is on the lower-cased char.
EnToRuTable ==
    97 :> 1092 @@ 98 :> 1080 @@ 99 :> 1089 @@ 100 :> 1074 @@ 101 :> 1091 @@
    102 :> 1072 @@ 103 :> 1087 @@ 104 :> 1088 @@ 105 :> 1096 @@ 106 :> 1086 @@
    107 :> 1083 @@ 108 :> 1076 @@ 109 :> 1100 @@ 110 :> 1090 @@ 111 :> 1097 @@
    112 :> 1079 @@ 113 :> 1081 @@ 114 :> 1082 @@ 115 :> 1099 @@ 116 :> 1077 @@
    117 :> 1075 @@ 118 :> 1084 @@ 119 :> 1094 @@ 120 :> 1095 @@ 121 :> 1085 @@
    122 :> 1103

\* the table with the rows of 'b' and 'n' exchanged
map_en_to_ru_bn_swapped(ch) ==
    LET lower == to_ascii_lowercase(ch)
    IN  IF lower = 98 THEN EnToRuTable[110]
        ELSE IF lower = 110 THEN EnToRuTable[98]
        ELSE IF lower \in DOMAIN EnToRuTable THEN EnToRuTable[lower] ELSE lower

map_en_to_ru(ch) ==
    LET lower == to_ascii_lowercase(ch)
    IN  IF lower \in DOMAIN EnToRuTable THEN EnToRuTable[lower] ELSE lower

\* typed.chars().map(map_en_to_ru).collect()
Translit(s) == [i \in 1..Len(s) |-> map_en_to_ru(s[i])]

EnVowels == {97, 101, 105, 111, 117, 121, 65, 69, 73, 79, 85, 89}

RuVowels == {1072, 1077, 1105, 1080, 1086, 1091, 1099, 1101, 1102, 1103,
             1040, 1045, 1025, 1048, 1054, 1059, 1067, 1069, 1070, 1071}

\* en_vowel_ratio as <<vowels, letters>>
en_vowel_ratio(s) ==
    LET letters == {i \in 1..Len(s) : is_ascii_alphabetic(s[i])}
    IN  <<Cardinality({i \in letters : s[i] \in EnVowels}), Cardinality(letters)>>

\* ru_vowel_ratio as <<vowels, letters>>
ru_vowel_ratio(s) ==
    <<CountIn(s, RuVowels), Cardinality({i \in 1..Len(s) : is_alphabetic(s[i])})>>

\* ratio < pct/100, ratio > pct/100, ratio >= pct/100; a ratio with no
\* letters is 0.0.
RatioLt(r, pct) == IF r[2] = 0 THEN 0 < pct ELSE r[1] * 100 < pct * r[2]

RatioGt(r, pct) == IF r[2] = 0 THEN 0 > pct ELSE r[1] * 100 > pct * r[2]

RatioGe(r, pct) == ~RatioLt(r, pct)

\* "th", "sh", "ch", "ck", "qu", "ng", "oo", "ee"
StrongBigrams ==
    { <<116, 104>>, <<115, 104>>, <<99, 104>>, <<99, 107>>,
      <<113, 117>>, <<110, 103>>, <<111, 111>>, <<101, 101>> }

has_strong_english_bigrams(typed) ==
    \E b \in StrongBigrams : Contains(LowerStr(typed), b)

\* the test without `|| ratio >= 0.25`
looks_like_english_word_bigram_only(typed) ==
    IF ~is_ascii_word(typed) THEN FALSE
    ELSE LET ratio == en_vowel_ratio(typed)
         IN  IF RatioLt(ratio, 15) \/ RatioGt(ratio, 70) THEN FALSE
             ELSE \E b \in StrongBigrams : Contains(LowerStr(typed), b)

looks_like_english_word(typed) ==
    IF ~is_ascii_word(typed) THEN FALSE
    ELSE LET ratio == en_vowel_ratio(typed)
         IN  IF RatioLt(ratio, 15) \/ RatioGt(ratio, 70) THEN FALSE
             ELSE (\E b \in StrongBigrams : Contains(LowerStr(typed), b))
                  \/ RatioGe(ratio, 25)

should_autocorrect_en_to_ru(typed, converted) ==
    IF ~is_ascii_word(typed) THEN FALSE
    ELSE IF looks_like_english_word(typed) THEN FALSE
    ELSE RatioGe(ru_vowel_ratio(converted), 20)

\* the soft threshold applied without asking for a bigram
should_autocorrect_ru_to_en_soft(typed, would_be_ru) ==
    IF ~is_ascii_word(typed) THEN FALSE
    ELSE IF ~looks_like_english_word(typed) THEN FALSE
    ELSE RatioLt(ru_vowel_ratio(would_be_ru), 45)

should_autocorrect_ru_to_en(typed, would_be_ru) ==
    IF ~is_ascii_word(typed) THEN FALSE
    ELSE IF ~looks_like_english_word(typed) THEN FALSE
    ELSE LET ru_ratio == ru_vowel_ratio(would_be_ru)
         IN  IF RatioLt(ru_ratio, 25) THEN TRUE
             ELSE has_strong_english_bigrams(typed) /\ RatioLt(ru_ratio, 45)

\* ------------------------------------------------------------------------
\* Engine closures (LayoutSwitcherModule::start)
\* ------------------------------------------------------------------------

MIN_AUTOCORRECT_LEN == 5

VK_BACK == 8

VK_RETURN == 13

VK_SPACE == 32

is_letter_vk(vk) == vk \in 65..90

\* (vk as u8 as char).to_ascii_lowercase(), upper-cased when Shift is down
vk_to_letter(vk, shift) ==
    LET base == to_ascii_lowercase(vk % 256)
    IN  IF shift THEN to_ascii_uppercase(base) ELSE base

is_all_upper_ascii(s) ==
    /\ \E i \in 1..Len(s) : is_ascii_alphabetic(s[i])
    /\ \A i \in 1..Len(s) : is_ascii_alphabetic(s[i]) => is_ascii_uppercase(s[i])

is_mixed_case_ascii(s) ==
    /\ \E i \in 1..Len(s) : is_ascii_lowercase(s[i])
    /\ \E i \in 1..Len(s) : is_ascii_uppercase(s[i])

is_alt_vk(vk) == vk \in {18, 164, 165}

is_shift_vk(vk) == vk \in {16, 160, 161}

\* ------------------------------------------------------------------------
\* The desktop the platform calls observe
\* ------------------------------------------------------------------------

\* GetForegroundWindow() returning null
NullHwnd == 0

\* Window handles: 1 an editor, 2 a window whose title holds a blocked
\* substring in another case, 3 a window of a blocked process, 4 a window
\* whose process cannot be opened (OpenProcess returns null).
Hwnds == {NullHwnd, 1, 2, 3, 4}

\* GetWindowTextW: "doc", "My PW", "x"
WindowTitle(h) ==
    CASE h = 1 -> <<100, 111, 99>>
      [] h = 2 -> <<77, 121, 32, 80, 87>>
      [] OTHER -> <<120>>

\* get_process_name: Some(name) is <<name>>, None is <<>>: "ed", "ed", "Sh",
\* None
WindowProcess(h) ==
    CASE h = 3 -> << <<83, 104>> >>
      [] h = 4 -> <<>>
      [] OTHER -> << <<101, 100>> >>

\* forbidden_contexts of the configuration: blocked_windows ["pw", ""],
\* blocked_processes ["sh"]
ForbiddenConfig ==
    [ blocked_windows   |-> << <<112, 119>>, <<>> >>,
      blocked_processes |-> << <<115, 104>> >>,
      blocked_input_types |-> <<>> ]

\* String::to_lowercase on the ASCII strings that occur
to_lowercase(s) == LowerStr(s)

contains_any(haystack, needles) ==
    \E k \in 1..Len(needles) :
        /\ Len(to_lowercase(needles[k])) > 0
        /\ Contains(to_lowercase(haystack), to_lowercase(needles[k]))

is_forbidden(info, forbidden) ==
    IF contains_any(info.title, forbidden.blocked_windows) THEN TRUE
    ELSE IF /\ Len(info.process_name) > 0
            /\ contains_any(info.process_name[1], forbidden.blocked_processes)
         THEN TRUE
    ELSE FALSE

\* The ActiveWindowInfo of a window; a handle's title and process do not
\* change here, so a cache hit of get_window_info_cached returns what a
\* fresh query returns.
get_window_info_cached(hwnd) ==
    [title |-> WindowTitle(hwnd), process_name |-> WindowProcess(hwnd)]

\* Installed keyboard layouts (HKL values; the low word is the language id):
\* English, Russian, Greek.
InstalledLayouts == <<67699721, 68748313, 67634184>>

\* (value as usize & 0xFFFF) as u16
lo_word(value) == value % 65536

\* anyhow::Result<bool> / Result<u16>
OkTrue == "Ok(true)"

OkFalse == "Ok(false)"

Err == "Err"

OkBool(b) == IF b THEN OkTrue ELSE OkFalse

\* One platform call as the engine sees it: the operation, its arguments,
\* what the Forbidden-Context Guard inside it reported, its result, and the
\* number of input events or window messages it delivered to the OS.
Call(op, lang, count, text, guard, res, sent) ==
    [op |-> op, lang |-> lang, count |-> count, text |-> text,
     guard |-> guard, res |-> res, sent |-> sent]

is_forbidden_context(hwnd) ==
    IF hwnd = NullHwnd
    THEN Call("is_forbidden_context", 0, 0, <<>>, "forbidden", OkTrue, 0)
    ELSE LET f == is_forbidden(get_window_info_cached(hwnd), ForbiddenConfig)
         IN  Call("is_forbidden_context", 0, 0, <<>>,
                  IF f THEN "forbidden" ELSE "permitted", OkBool(f), 0)

\* hkl: GetKeyboardLayout of the thread owning the foreground window
get_active_lang_id(hwnd, hkl) ==
    IF hwnd = NullHwnd
    THEN Call("get_active_lang_id", 0, 0, <<>>, "none", Err, 0)
    ELSE Call("get_active_lang_id", lo_word(hkl), 0, <<>>, "none", "Ok", 0)

\* What the OS does with a layout request: GetKeyboardLayoutList fills no
\* list, PostMessageW returns 0, or the message is posted.
PostOutcomes == {"no_list", "not_posted", "posted"}

set_layout_by_lang_id(hwnd, lang_id, os) ==
    LET op(guard, res, sent) ==
            Call("set_layout_by_lang_id", lang_id, 0, <<>>, guard, res, sent)
    IN  IF hwnd = NullHwnd THEN op("forbidden", OkFalse, 0)
        ELSE IF is_forbidden(get_window_info_cached(hwnd), ForbiddenConfig)
             THEN op("forbidden", OkFalse, 0)
        ELSE IF os = "no_list" THEN op("permitted", OkFalse, 0)
        ELSE IF ~\E i \in 1..Len(InstalledLayouts) :
                    lo_word(InstalledLayouts[i]) = lang_id
             THEN op("permitted", OkFalse, 0)
        ELSE op("permitted", OkBool(os = "posted"), IF os = "posted" THEN 1 ELSE 0)

\* What SendInput delivered: nothing, only the first event, or all n events.
SendInputOutcomes == {"none", "part", "all"}

SendInput(n, delivered) ==
    CASE delivered = "all"  -> n
      [] delivered = "part" -> IF n > 1 THEN 1 ELSE 0
      [] OTHER              -> 0

send_backspaces(hwnd, count, delivered) ==
    LET op(guard, res, sent) ==
            Call("send_backspaces", 0, count, <<>>, guard, res, sent)
    IN  IF hwnd = NullHwnd THEN op("err", Err, 0)
        ELSE IF is_forbidden(get_window_info_cached(hwnd), ForbiddenConfig)
             THEN op("forbidden", OkFalse, 0)
        ELSE IF count = 0 THEN op("permitted", OkTrue, 0)
        ELSE LET sent == SendInput(count * 2, delivered)
             IN  op("permitted", OkBool(sent = count * 2), sent)

\* text.encode_utf16().count() is Len(text): every character that occurs is
\* in the Basic Multilingual Plane.
send_unicode_text(hwnd, text, delivered) ==
    LET op(guard, res, sent) ==
            Call("send_unicode_text", 0, 0, text, guard, res, sent)
    IN  IF hwnd = NullHwnd THEN op("err", Err, 0)
        ELSE IF is_forbidden(get_window_info_cached(hwnd), ForbiddenConfig)
             THEN op("forbidden", OkFalse, 0)
        ELSE IF Len(text) = 0 THEN op("permitted", OkTrue, 0)
        ELSE LET sent == SendInput(Len(text) * 2, delivered)
             IN  op("permitted", OkBool(sent = Len(text) * 2), sent)

\* ------------------------------------------------------------------------
\* The decision at a Space boundary
\* ------------------------------------------------------------------------

\* the Ok(true) arm falling through
GuardAbortsOnErrorOnly(res) == res = Err

\* match platform.is_forbidden_context(..): Ok(true) and Err(_) abandon the word
GuardAborts(res) == res \in {OkTrue, Err}

\* platform.get_active_lang_id().unwrap_or(0)
CommitLang(langcall) == IF langcall.res = Err THEN 0 ELSE langcall.lang

\* the filter without its mixed-case test
FilterSkipsNoMixedCase(typed) ==
    \/ Len(typed) < MIN_AUTOCORRECT_LEN
    \/ is_all_upper_ascii(typed)

\* the conservative filter: short words and acronyms are left alone
FilterSkips(typed) ==
    \/ Len(typed) < MIN_AUTOCORRECT_LEN
    \/ is_all_upper_ascii(typed)
    \/ is_mixed_case_ascii(typed)

NoCorrection == [direction |-> "None", lang_id |-> 0, text |-> <<>>]

\* the decision trying Latin->Cyrillic first whatever the layout
DecisionIgnoringClass(typed, lang) ==
    IF FilterSkips(typed) THEN NoCorrection
    ELSE IF should_autocorrect_en_to_ru(typed, Translit(typed))
         THEN [direction |-> "EnToRu", lang_id |-> LANG_RU, text |-> Translit(typed)]
    ELSE IF is_cyrillic_lang_id(lang)
            /\ should_autocorrect_ru_to_en(typed, Translit(typed))
         THEN [direction |-> "RuToEn", lang_id |-> LANG_EN, text |-> typed]
    ELSE NoCorrection

\* The branch the engine takes for the word `typed` committed under language
\* id `lang`: the layout it requests and the text it injects before the space.
Decision(typed, lang) ==
    LET commit_is_cyrillic == is_cyrillic_lang_id(lang)
        commit_is_latin    == ~commit_is_cyrillic
    IN  IF FilterSkips(typed) THEN NoCorrection
        ELSE IF commit_is_latin
             THEN LET converted == Translit(typed)
                  IN  IF should_autocorrect_en_to_ru(typed, converted)
                      THEN [direction |-> "EnToRu", lang_id |-> LANG_RU,
                            text |-> converted]
                      ELSE NoCorrection
        ELSE IF commit_is_cyrillic
             THEN LET would_be_ru == Translit(typed)
                  IN  IF should_autocorrect_ru_to_en(typed, would_be_ru)
                      THEN [direction |-> "RuToEn", lang_id |-> LANG_EN,
                            text |-> typed]
                      ELSE NoCorrection
        ELSE NoCorrection

\* the count without the space
BackspaceCountWordOnly(word) == Len(word)

\* word_keys.len() + 1: the word and the space that already landed
BackspaceCount(word) == Len(word) + 1

\* format!("{} ", text)
TextWithSpace(text) == Append(text, 32)

\* ------------------------------------------------------------------------
\* Inputs of the model
\* ------------------------------------------------------------------------

\* The words the user types: "ghbdtn", "hello", "thong", "GHBDTN", "HELLO",
\* "Hello".  The buffer is always a prefix of one of them.
Vocabulary ==
    { <<103, 104, 98, 100, 116, 110>>,
      <<104, 101, 108, 108, 111>>,
      <<116, 104, 111, 110, 103>>,
      <<71, 72, 66, 68, 84, 78>>,
      <<72, 69, 76, 76, 79>>,
      <<72, 101, 108, 108, 111>> }

VocabularyPrefixes ==
    UNION {{SubSeq(w, 1, n) : n \in 0..Len(w)} : w \in Vocabulary}

\* The virtual-key code the hook sees for a KEYEVENTF_UNICODE input
VK_PACKET == 231

\* Letter keys G H B D T N E L O; Backspace, Tab, Enter, Space; Shift,
\* LShift; Alt (VK_MENU), LAlt; VK_PACKET.
VkCodes == {71, 72, 66, 68, 84, 78, 69, 76, 79} \cup {8, 9, 13, 32}
           \cup {16, 160} \cup {18, 164} \cup {VK_PACKET}

\* The operations that put synthetic key transitions into the input stream,
\* and the codes the hook reports for them: wVk VK_BACK, and VK_PACKET
SynthOps == {"send_backspaces", "send_unicode_text"}

SynthVks == {VK_BACK, VK_PACKET}

\* detect_threshold values of the configuration (default 3)
Thresholds == {3, 5}

\* "alt+shift"
HotkeyAltShift == <<97, 108, 116, 43, 115, 104, 105, 102, 116>>

\* hotkey values of the configuration: "Alt+Shift", "ctrl+space"
Hotkeys ==
    { <<65, 108, 116, 43, 83, 104, 105, 102, 116>>,
      <<99, 116, 114, 108, 43, 115, 112, 97, 99, 101>> }

\* let hotkey = config.hotkey.to_lowercase(); hotkey == "alt+shift"
hotkey_supported(hotkey) == to_lowercase(hotkey) = HotkeyAltShift

\* The configuration with the outcome of the hotkey check made once at start
LayoutSwitcherConfig(hotkey, auto_detect, detect_threshold) ==
    [hotkey |-> hotkey, hotkey_ok |-> hotkey_supported(hotkey),
     auto_detect |-> auto_detect, detect_threshold |-> detect_threshold]

Configs ==
    {LayoutSwitcherConfig(h, a, d) :
        h \in Hotkeys, a \in BOOLEAN, d \in Thresholds}

\* ------------------------------------------------------------------------
\* State
\* ------------------------------------------------------------------------

\* The desktop is not part of the state: each platform call observes the
\* foreground window and the layout that are current when it is made, and
\* either may have changed since the previous call.

VARIABLES
    config,         \* LayoutSwitcherConfig: hotkey supported, auto_detect, detect_threshold
    running,        \* the subscriber loop has not left its receive loop
    is_alt_down,
    is_shift_down,
    hotkey_fired,
    word_keys,      \* Vec<char>
    lastEv,         \* history: the keyboard event handled last
    preWord,        \* history: word_keys when that event arrived
    calls,          \* history: the platform calls made while handling it
    staleLen,       \* history: leading characters of word_keys older than the
                    \* most recent boundary key-down
    guardTarget,    \* history: how far the foreground target was resolved for
                    \* the guard query made at the boundary handled last
    hotkeyObserved, \* history: the event handled last fired the hotkey notification
    holdEdges,      \* history: notifications fired since the last key-up of an
                    \* Alt or Shift key (counted up to 2)
    heldKeys,       \* history: the Alt and Shift keys that are physically down,
                    \* kept where single keys are followed
    echo,           \* history: a correction delivered synthetic input and every
                    \* event handled since is a transition such input produces
    probe,          \* the word the pure functions are applied to, with their results
    guardProbe,     \* the window and block lists is_forbidden is applied to, with its result
    langProbe       \* the language identifier is_cyrillic_lang_id is applied to, with its result

\* The application around the engine: main, the keyboard-hook thread, the
\* forwarding thread, the Event Bus and its subscriber tasks.
VARIABLES
    enabled,        \* modules that are loaded and enabled in the configuration
    mainPc,         \* where main() is
    hookPc,         \* where the thread spawned by start_keyboard_hook is
    key_tx,         \* KEY_TX holds Some(sender)
    hookInstalled,  \* the WH_KEYBOARD_LL hook is installed
    ready,          \* what the hook thread sent on ready_tx
    startResult,    \* what start_keyboard_hook returned to main
    quitPosted,     \* WM_QUIT is in the hook thread's message queue
    mpsc,           \* events sent on events_tx and not yet received
    nextId,         \* key transitions the hook callback has seen
    forwardPc,      \* where the forwarding thread is
    published,      \* every event passed to EventBus::send, oldest first
    sub,            \* per module: task status, receiver position, events handled
    joined,         \* modules whose handle main has joined
    stopReturned,   \* history: KeyboardHookController::stop or drop has returned
    lateEnqueue     \* history: an event was enqueued after that

appVars == <<enabled, mainPc, hookPc, key_tx, hookInstalled, ready, startResult,
             quitPosted, mpsc, nextId, forwardPc, published, sub, joined,
             stopReturned, lateEnqueue>>

engineVars == <<running, is_alt_down, is_shift_down, hotkey_fired, word_keys,
                lastEv, preWord, calls, staleLen, guardTarget, hotkeyObserved,
                holdEdges, heldKeys, echo>>

probes == <<probe, guardProbe, langProbe>>

\* The platform layer under concurrent callers: the clock, the desktop, the
\* active-window cache and the threads inside a platform function.
VARIABLES
    fg,             \* GetForegroundWindow()
    winTitle,       \* GetWindowTextW of each window; changes with the window's document
    cache,          \* ACTIVE_WINDOW_CACHE: <<>> is None, <<entry>> is Some(entry)
    caller,         \* per thread: where it is inside a platform function
    lastRet         \* history: the return made by the step just taken, if any

platVars == <<fg, winTitle, cache, caller, lastRet>>

vars == <<config, engineVars, probes, appVars, platVars>>

\* The modules main() starts, in the order it starts and joins them
Modules == <<"layout_switcher", "spell_checker">>

ModuleNames == {Modules[i] : i \in 1..Len(Modules)}

\* main() at statement at, working on the i-th module where that matters
At(at, i) == [at |-> at, i |-> i]

\* A module that was never started: no task, no receiver
IdleSub == [status |-> "idle", cursor |-> 0, processed |-> <<>>]

\* main() before its first statement that touches the hook or a module
AppInit ==
    /\ mainPc = At("start_hook", 0)
    /\ hookPc = "none"
    /\ key_tx = FALSE
    /\ hookInstalled = FALSE
    /\ ready = "none"
    /\ startResult = "none"
    /\ quitPosted = FALSE
    /\ mpsc = <<>>
    /\ nextId = 0
    /\ forwardPc = "none"
    /\ published = <<>>
    /\ sub = [m \in ModuleNames |-> IdleSub]
    /\ joined = {}
    /\ stopReturned = FALSE
    /\ lateEnqueue = FALSE

\* Threads that call into the platform layer on a multi-threaded runtime,
\* and the function each of them calls: a subscriber task making its guard
\* query, and a user of the explicit layout switch.
Callers == {1, 2}

CallerFn(t) == IF t = 1 THEN "is_forbidden_context" ELSE "switch_to_next_layout"

\* Windows of the desktop the cache is exercised on: the editor and the
\* window of a blocked process
PlatWindows == {1, 3}

\* "doc", "My PW": what the editor's title bar shows as its document changes
EditorTitles == {<<100, 111, 99>>, <<77, 121, 32, 80, 87>>}

NoInfo == [title |-> <<>>, process_name |-> <<>>]

\* A thread outside every platform function
IdleCaller ==
    [pc |-> "idle", fn |-> "none", hwnd |-> NullHwnd, info |-> NoInfo,
     queried |-> 0]

\* What a platform function hands back besides its Result: the layout it
\* asked the OS for (0: none), the messages posted, and the OS answers it
\* read on the way (0 / <<>> where it returned before reading them).
Returned(res, requested, sent, thread_id, current, layouts) ==
    [res |-> res, requested |-> requested, sent |-> sent,
     thread_id |-> thread_id, current |-> current, layouts |-> layouts]

NoReturn ==
    [fn |-> "none", hwnd |-> NullHwnd, kind |-> "none", info |-> NoInfo,
     stale |-> 0, out |-> Returned("none", 0, 0, 0, 0, <<>>)]

\* ACTIVE_WINDOW_CACHE = Mutex::new(None), no call in progress
PlatInit ==
    /\ fg = 1
    /\ winTitle = [h \in PlatWindows |-> WindowTitle(h)]
    /\ cache = <<>>
    /\ caller = [t \in Callers |-> IdleCaller]
    /\ lastRet = NoReturn

NoEvent == [vk |-> 0, down |-> FALSE]

\* lastEv once AppEvent::ShutdownRequested was the event handled last
ShutdownEvent == [vk |-> 0 - 1, down |-> FALSE]

\* Language ids a commit can resolve: English, Russian, Ukrainian (0x0422)
ProbeLangs == {LANG_EN, LANG_RU, 1058}

Apply(typed) ==
    [typed    |-> typed,
     en_to_ru |-> should_autocorrect_en_to_ru(typed, Translit(typed)),
     ru_to_en |-> should_autocorrect_ru_to_en(typed, Translit(typed)),
     decision |-> [l \in ProbeLangs |-> Decision(typed, l)],
     converted |-> Translit(typed)]

ApplyGuard(info, forbidden) ==
    [info |-> info, forbidden |-> forbidden, result |-> is_forbidden(info, forbidden)]

\* No window text, no process name, empty block lists
NoGuardProbe ==
    ApplyGuard([title |-> <<>>, process_name |-> <<>>],
               [blocked_windows |-> <<>>, blocked_processes |-> <<>>,
                blocked_input_types |-> <<>>])

ApplyLang(lang_id) ==
    [lang_id |-> lang_id, primary |-> primary_lang_id(lang_id),
     cyrillic |-> is_cyrillic_lang_id(lang_id)]

\* No language identifier (0)
NoLangProbe == ApplyLang(0)

EngineInit ==
    /\ running = TRUE
    /\ is_alt_down = FALSE
    /\ is_shift_down = FALSE
    /\ hotkey_fired = FALSE
    /\ word_keys = <<>>
    /\ lastEv = NoEvent
    /\ preWord = <<>>
    /\ calls = <<>>
    /\ staleLen = 0
    /\ guardTarget = "none"
    /\ hotkeyObserved = FALSE
    /\ holdEdges = 0
    /\ heldKeys = {}
    /\ echo = FALSE

Init ==
    /\ config \in Configs
    /\ EngineInit
    /\ probe = Apply(<<>>)
    /\ guardProbe = NoGuardProbe
    /\ langProbe = NoLangProbe
    /\ enabled = ModuleNames
    /\ AppInit
    /\ PlatInit

\* ------------------------------------------------------------------------
\* The engine loop
\* ------------------------------------------------------------------------

\* A key-down that ends a word: neither a letter nor Backspace nor one of
\* the hotkey's modifiers.
IsBoundaryVk(vk) ==
    ~is_letter_vk(vk) /\ vk # VK_BACK /\ ~is_alt_vk(vk) /\ ~is_shift_vk(vk)

Min(a, b) == IF a < b THEN a ELSE b

\* The outcomes a platform call can have, over every foreground window and
\* layout it may observe and everything the OS may answer.
GuardCalls == {is_forbidden_context(h) : h \in Hwnds}

\* What is_forbidden_context had in hand when it answered: no foreground
\* window, an ActiveWindowInfo without process name, or a complete one.
Resolution(hwnd) ==
    IF hwnd = NullHwnd THEN "no_window"
    ELSE IF get_window_info_cached(hwnd).process_name = <<>> THEN "no_process"
    ELSE "resolved"

\* An event handled without any platform call
NoCalls == calls' = <<>> /\ guardTarget' = "none"

LangCalls ==
    {get_active_lang_id(h, InstalledLayouts[i]) :
        h \in Hwnds, i \in 1..Len(InstalledLayouts)}

SetLayoutCalls(lang_id) ==
    {set_layout_by_lang_id(h, lang_id, os) : h \in Hwnds, os \in PostOutcomes}

BackspaceCalls(count) ==
    {send_backspaces(h, count, d) : h \in Hwnds, d \in SendInputOutcomes}

UnicodeCalls(text) ==
    {send_unicode_text(h, text, d) : h \in Hwnds, d \in SendInputOutcomes}

\* let erased = match platform.send_backspaces(..) { Ok(v) => v, Err(_) => false }
ErasedUnlessErr(c2) == c2.res # Err

Erased(c2) == c2.res = OkTrue

\* The accepted correction, cut short when the layout request is refused.
ExecuteStopsOnLayoutFailure(prefix, dec) ==
    \E c1 \in SetLayoutCalls(dec.lang_id),
       c2 \in BackspaceCalls(BackspaceCount(word_keys)) :
        IF c1.res # OkTrue
        THEN calls' = prefix \o <<c1>>
        ELSE IF Erased(c2)
             THEN \E c3 \in UnicodeCalls(TextWithSpace(dec.text)) :
                     calls' = prefix \o <<c1, c2, c3>>
             ELSE calls' = prefix \o <<c1, c2>>

\* The accepted correction with the erase attempted a second time when the
\* first attempt did not report Ok(true).
ExecuteRetriesErase(prefix, dec) ==
    \E c1 \in SetLayoutCalls(dec.lang_id),
       c2 \in BackspaceCalls(BackspaceCount(word_keys)) :
        IF Erased(c2)
        THEN \E c3 \in UnicodeCalls(TextWithSpace(dec.text)) :
                calls' = prefix \o <<c1, c2, c3>>
        ELSE \E r2 \in BackspaceCalls(BackspaceCount(word_keys)) :
                calls' = prefix \o <<c1, c2, r2>>

\* The accepted correction: layout request, erase, inject.
Execute(prefix, dec) ==
    \E c1 \in SetLayoutCalls(dec.lang_id),
       c2 \in BackspaceCalls(BackspaceCount(word_keys)) :
        IF Erased(c2)
        THEN \E c3 \in UnicodeCalls(TextWithSpace(dec.text)) :
                calls' = prefix \o <<c1, c2, c3>>
        ELSE calls' = prefix \o <<c1, c2>>

\* 0x20 with word_keys.len() >= detect_threshold
SpaceCommit ==
    \E g \in GuardCalls, h \in Hwnds :
        /\ g = is_forbidden_context(h)
        /\ guardTarget' = Resolution(h)
        /\ IF GuardAborts(g.res)
           THEN calls' = <<g>>
           ELSE \E l \in LangCalls :
                   LET dec == Decision(word_keys, CommitLang(l))
                   IN  IF dec.direction = "None"
                       THEN calls' = <<g, l>>
                       ELSE Execute(<<g, l>>, dec)

\* 0x08 with the whole buffer dropped
BackspaceKeyClears ==
    word_keys' = <<>> /\ NoCalls

\* 0x08 => { word_keys.pop(); }
BackspaceKey ==
    /\ word_keys' = IF Len(word_keys) = 0 THEN <<>>
                    ELSE SubSeq(word_keys, 1, Len(word_keys) - 1)
    /\ NoCalls

\* 0x20 with a word the guard refused left in the buffer
SpaceKeyKeepsRefused ==
    /\ IF Len(word_keys) >= config.detect_threshold
       THEN SpaceCommit
       ELSE NoCalls
    /\ word_keys' = IF Len(calls') = 1 THEN word_keys ELSE <<>>

\* 0x20 with the word left in the buffer once a correction was carried out
SpaceKeyKeepsCorrected ==
    /\ IF Len(word_keys) >= config.detect_threshold
       THEN SpaceCommit
       ELSE NoCalls
    /\ word_keys' = IF Len(calls') >= 4 THEN word_keys ELSE <<>>

\* 0x20 with the decision procedure run whatever the buffered length
SpaceKeyNoThreshold ==
    SpaceCommit /\ word_keys' = <<>>

\* 0x20 => { if word_keys.len() >= detect_threshold { .. } word_keys.clear(); }
SpaceKey ==
    /\ IF Len(word_keys) >= config.detect_threshold
       THEN SpaceCommit
       ELSE NoCalls
    /\ word_keys' = <<>>

\* 0x0D handled as a deciding boundary
EnterKeyDecides ==
    /\ IF Len(word_keys) >= config.detect_threshold
       THEN SpaceCommit
       ELSE NoCalls
    /\ word_keys' = <<>>

\* 0x0D => { word_keys.clear(); }
EnterKey ==
    word_keys' = <<>> /\ NoCalls

\* vk if is_letter_vk(vk) => { word_keys.push(vk_to_letter(vk, is_shift_down)); }
LetterKey(vk) ==
    /\ word_keys' = Append(word_keys, vk_to_letter(vk, is_shift_down'))
    /\ NoCalls

\* match ev.vk_code { .. } for a key-down that reaches it
KeyDown(vk) ==
    CASE vk = VK_BACK -> BackspaceKey
      [] vk = VK_SPACE -> SpaceKey
      [] vk = VK_RETURN -> EnterKey
      [] is_letter_vk(vk) /\ vk \notin {VK_BACK, VK_SPACE, VK_RETURN} -> LetterKey(vk)
      [] OTHER -> word_keys' = <<>> /\ NoCalls

\* The notification fires whenever both modifiers are held
HotkeyLevel(alt, shift, fired) == alt /\ shift

\* if is_alt_down && is_shift_down && !hotkey_fired
HotkeyEdge(alt, shift, fired) == alt /\ shift /\ ~fired

\* The engine advances the layout itself when it observes the hotkey
HotkeyCallsSwitch ==
    <<Call("switch_to_next_layout", 0, 0, <<>>, "permitted", OkTrue, 1)>>

\* The platform calls made when the hotkey is observed: the engine only logs
\* and leaves the switch to Windows
HotkeyCalls == <<>>

\* Only auto_detect = false ends the handling before the match
SkipsMatchIgnoringAlt(cfg, alt) == ~cfg.auto_detect

\* if !config.auto_detect { continue; }  if is_alt_down { continue; }
SkipsMatch(cfg, alt) == ~cfg.auto_detect \/ alt

\* A key-up that also empties the buffer
KeyUpClearsWord(vk) ==
    /\ hotkey_fired' = (IF ~(is_alt_down' /\ is_shift_down') THEN FALSE ELSE hotkey_fired)
    /\ hotkeyObserved' = FALSE
    /\ holdEdges' = IF is_alt_vk(vk) \/ is_shift_vk(vk) THEN 0 ELSE holdEdges
    /\ word_keys' = <<>>
    /\ NoCalls

\* if !ev.is_key_down { if !(is_alt_down && is_shift_down) { hotkey_fired = false; } continue; }
KeyUp(vk) ==
    /\ hotkey_fired' = (IF ~(is_alt_down' /\ is_shift_down') THEN FALSE ELSE hotkey_fired)
    /\ hotkeyObserved' = FALSE
    /\ holdEdges' = IF is_alt_vk(vk) \/ is_shift_vk(vk) THEN 0 ELSE holdEdges
    /\ UNCHANGED word_keys
    /\ NoCalls

\* Every keyboard event is handled whatever the configured hotkey
IgnoresKeyboardNever(cfg) == FALSE

\* if hotkey != "alt+shift" { continue; }
IgnoresKeyboard(cfg) == ~cfg.hotkey_ok

\* AppEvent::Keyboard(ev): what the handler does to the engine
OnKeyboard(vk, down) ==
    /\ running
    /\ lastEv' = [vk |-> vk, down |-> down]
    /\ preWord' = word_keys
    /\ IF IgnoresKeyboard(config)
       THEN /\ UNCHANGED <<is_alt_down, is_shift_down, hotkey_fired, word_keys,
                           holdEdges>>
            /\ hotkeyObserved' = FALSE
            /\ NoCalls
       ELSE /\ is_alt_down' = (IF is_alt_vk(vk) THEN down ELSE is_alt_down)
            /\ is_shift_down' = (IF is_shift_vk(vk) THEN down ELSE is_shift_down)
            /\ IF ~down
               THEN KeyUp(vk)
               ELSE LET edge == HotkeyEdge(is_alt_down', is_shift_down', hotkey_fired)
                    IN  /\ hotkey_fired' = (IF edge THEN TRUE ELSE hotkey_fired)
                        /\ hotkeyObserved' = edge
                        /\ holdEdges' = IF edge THEN Min(holdEdges + 1, 2) ELSE holdEdges
                        /\ IF SkipsMatch(config, is_alt_down')
                           THEN /\ UNCHANGED word_keys
                                /\ calls' = IF edge THEN HotkeyCalls ELSE <<>>
                                /\ guardTarget' = "none"
                           ELSE KeyDown(vk)
    /\ word_keys' \in VocabularyPrefixes
    /\ staleLen' = IF down /\ IsBoundaryVk(vk) THEN Len(word_keys')
                   ELSE Min(staleLen, Len(word_keys'))
    /\ echo' = IF \E i \in 1..Len(calls') :
                      calls'[i].op \in SynthOps /\ calls'[i].sent > 0
               THEN TRUE
               ELSE echo /\ vk \in SynthVks
    /\ UNCHANGED <<config, running, probes, appVars, platVars>>

\* AppEvent::Keyboard(ev)
HandleKeyboard(vk, down) ==
    OnKeyboard(vk, down) /\ UNCHANGED heldKeys

\* AppEvent::ShutdownRequested
HandleShutdown ==
    /\ running
    /\ running' = FALSE
    /\ lastEv' = ShutdownEvent
    /\ hotkeyObserved' = FALSE
    /\ UNCHANGED <<config, is_alt_down, is_shift_down, hotkey_fired, word_keys,
                   preWord, calls, staleLen, guardTarget, holdEdges, heldKeys,
                   probes, appVars, platVars>>
    /\ echo' = FALSE

Next ==
    \/ \E vk \in VkCodes, down \in BOOLEAN : HandleKeyboard(vk, down)
    \/ HandleShutdown

Spec == Init /\ [][Next]_vars

\* ------------------------------------------------------------------------
\* The pure functions applied to bounded inputs
\* ------------------------------------------------------------------------

MaxProbeLen == 5

\* t h e o b E T
ProbeLetters == {116, 104, 101, 111, 98, 69, 84}

DefaultConfig == LayoutSwitcherConfig(HotkeyAltShift, TRUE, 3)

InitProbe ==
    /\ config = DefaultConfig
    /\ EngineInit
    /\ probe = Apply(<<>>)
    /\ guardProbe = NoGuardProbe
    /\ langProbe = NoLangProbe
    /\ enabled = ModuleNames
    /\ AppInit
    /\ PlatInit

ProbeAppend(ch) ==
    /\ Len(probe.typed) < MaxProbeLen
    /\ probe' = Apply(Append(probe.typed, ch))
    /\ UNCHANGED <<config, engineVars, guardProbe, langProbe, appVars, platVars>>

NextProbe == \E ch \in ProbeLetters : ProbeAppend(ch)

SpecProbe == InitProbe /\ [][NextProbe]_vars

\* ------------------------------------------------------------------------
\* Properties
\* ------------------------------------------------------------------------

\* The event handled last was a Space key-down that reached the decision
\* procedure with the word preWord.
CommitHandled ==
    /\ lastEv = [vk |-> VK_SPACE, down |-> TRUE]
    /\ config.hotkey_ok /\ config.auto_detect /\ ~is_alt_down
    /\ Len(preWord) >= config.detect_threshold

ExecutorOps == {"set_layout_by_lang_id", "send_backspaces", "send_unicode_text"}

NoExecutorCall == \A i \in 1..Len(calls) : calls[i].op \notin ExecutorOps

\* "ghbdtn", "hello", "Hello", "thon"
W_ghbdtn == <<103, 104, 98, 100, 116, 110>>

W_hello == <<104, 101, 108, 108, 111>>

W_Hello == <<72, 101, 108, 108, 111>>

W_thon == <<116, 104, 111, 110>>

\* C1: at a Space boundary with at least detect_threshold buffered characters
\* the guard is queried first, and if it answers forbidden or fails, no
\* set_layout_by_lang_id, send_backspaces or send_unicode_text call is made
\* for the word and the buffer is empty afterwards.
C1_GuardAbortDiscardsWord ==
    CommitHandled =>
        /\ Len(calls) >= 1
        /\ calls[1].op = "is_forbidden_context"
        /\ calls[1].res \in {OkTrue, Err} =>
              /\ \A i \in 1..Len(calls) : calls[i].op \notin ExecutorOps
              /\ word_keys = <<>>

C1_Witness ==
    /\ CommitHandled
    /\ preWord = W_ghbdtn
    /\ calls[1].res = OkTrue
    /\ word_keys = <<>>

\* C2 (as claimed): if any guard check made while a word is handled - at
\* decision time or inside one of the three executor calls - reports
\* forbidden or fails, nothing is delivered to the OS for that word.
C2_AnyForbiddenMeansNoMutation ==
    CommitHandled =>
        ((\E i \in 1..Len(calls) : calls[i].guard \in {"forbidden", "err"})
            => \A j \in 1..Len(calls) : calls[j].sent = 0)

\* The layout class of the language id the commit resolved: Unknown when it
\* could not be resolved or is neither English (Latin) nor Cyrillic.
CommitClass(l) ==
    IF l.res = Err THEN "Unknown"
    ELSE IF primary_lang_id(l.lang) \in {25, 34, 35} THEN "Cyrillic"
    ELSE IF primary_lang_id(l.lang) = 9 THEN "Latin"
    ELSE "Unknown"

\* C3 (as claimed): when the layout class at commit time is Unknown the
\* engine makes no layout request, sends no backspaces and injects nothing.
C3_UnknownClassNoCorrection ==
    (CommitHandled /\ Len(calls) >= 2 /\ CommitClass(calls[2]) = "Unknown")
        => NoExecutorCall

\* C4: a word shorter than 5, all upper-case ASCII, or holding both a
\* lower-case and an upper-case ASCII letter gets no corrective call at the
\* Space boundary, whatever the layout and the heuristics.
C4_FilteredWordUntouched ==
    (/\ CommitHandled
     /\ \/ Len(preWord) < 5
        \/ (preWord # <<>> /\ \A i \in 1..Len(preWord) : preWord[i] \in 65..90)
        \/ (/\ \E i \in 1..Len(preWord) : preWord[i] \in 97..122
            /\ \E i \in 1..Len(preWord) : preWord[i] \in 65..90))
        => NoExecutorCall

C4_Witness ==
    /\ CommitHandled
    /\ preWord = W_Hello
    /\ Len(calls) = 2
    /\ is_cyrillic_lang_id(calls[2].lang)
    /\ should_autocorrect_ru_to_en(preWord, Translit(preWord))

\* C5: every send_backspaces call asks for the length of the buffer at the
\* Space boundary plus one.
C5_BackspaceCountIsLenPlusOne ==
    \A i \in 1..Len(calls) :
        calls[i].op = "send_backspaces" => calls[i].count = Len(preWord) + 1

C5_Witness ==
    /\ CommitHandled
    /\ preWord = W_hello
    /\ Len(calls) >= 4
    /\ calls[4].op = "send_backspaces"
    /\ calls[4].count = 6
    /\ calls[4].sent = 12

\* The commit of preWord passed the guard and resolved language id lang.
CommittedUnder(word, lang) ==
    /\ CommitHandled
    /\ preWord = word
    /\ Len(calls) >= 2
    /\ calls[2].res = "Ok"
    /\ calls[2].lang = lang

\* The calls after the guard and the language query are a request for
\* layout lang_id, count backspaces and, once those are all delivered, the
\* injection of text.
CorrectionIssued(lang_id, count, text) ==
    /\ Len(calls) >= 4
    /\ calls[3].op = "set_layout_by_lang_id" /\ calls[3].lang = lang_id
    /\ calls[4].op = "send_backspaces" /\ calls[4].count = count
    /\ (calls[4].guard = "permitted" /\ calls[4].sent = 2 * count) =>
          /\ Len(calls) = 5
          /\ calls[5].op = "send_unicode_text"
          /\ calls[5].text = text

\* C6: "ghbdtn" + Space under a Latin layout is corrected towards Cyrillic
\* (7 backspaces, then "привет "); "hello" + Space under a Cyrillic layout is
\* corrected towards Latin (6 backspaces, then "hello "); "ghbdtn" under
\* Cyrillic and "hello" under Latin are left alone.
C6_GhbdtnAndHello ==
    /\ CommittedUnder(W_ghbdtn, 1033) =>
          CorrectionIssued(1049, 7, <<1087, 1088, 1080, 1074, 1077, 1090, 32>>)
    /\ CommittedUnder(W_hello, 1049) =>
          CorrectionIssued(1033, 6, <<104, 101, 108, 108, 111, 32>>)
    /\ CommittedUnder(W_ghbdtn, 1049) => Len(calls) = 2
    /\ CommittedUnder(W_hello, 1033) => Len(calls) = 2

C6_Witness ==
    /\ CommittedUnder(W_ghbdtn, 1033)
    /\ Len(calls) = 5
    /\ calls[3].sent = 1
    /\ calls[4].sent = 14
    /\ calls[5].text = <<1087, 1088, 1080, 1074, 1077, 1090, 32>>
    /\ calls[5].sent = 14
    /\ calls[5].res = OkTrue

\* The English vowel ratio of the probed word lies outside [0.15, 0.70].
ProbeEnRatioOutside ==
    LET r == en_vowel_ratio(probe.typed)
    IN  r[1] * 100 < 15 * r[2] \/ r[1] * 100 > 70 * r[2]

\* The English vowel ratio of the probed word is below 0.25.
ProbeEnRatioBelowQuarter ==
    LET r == en_vowel_ratio(probe.typed)
    IN  r[1] * 100 < 25 * r[2]

ProbeHasBigram ==
    \E b \in StrongBigrams : Contains(LowerStr(probe.typed), b)

\* The Cyrillic vowel ratio of the transliteration of the probed word is
\* below pct/100.
ProbeRuRatioBelow(pct) ==
    LET r == ru_vowel_ratio(Translit(probe.typed))
    IN  r[1] * 100 < pct * r[2]

\* The probed word passes the engine's filter: at least 5 characters, not
\* all upper-case, not mixed-case.
ProbePassesFilter ==
    /\ Len(probe.typed) >= 5
    /\ \E i \in 1..Len(probe.typed) : probe.typed[i] \notin 65..90
    /\ ~(/\ \E i \in 1..Len(probe.typed) : probe.typed[i] \in 97..122
         /\ \E i \in 1..Len(probe.typed) : probe.typed[i] \in 65..90)

\* C7 (as claimed): under a Latin layout a word of ASCII letters is corrected
\* to Cyrillic exactly when its English vowel ratio lies outside
\* [0.15, 0.70] and it holds no strong bigram and its transliteration has a
\* Cyrillic vowel ratio >= 0.20.
C7_AsClaimed ==
    (is_ascii_word(probe.typed) /\ ProbePassesFilter) =>
        (probe.decision[1033].direction = "EnToRu" <=>
            /\ ProbeEnRatioOutside
            /\ ~ProbeHasBigram
            /\ ~ProbeRuRatioBelow(20))

\* C7 (amended): a word of ASCII letters is accepted for Latin->Cyrillic
\* correction exactly when (its English vowel ratio lies outside
\* [0.15, 0.70], or is below 0.25 with no strong bigram in the word) and its
\* transliteration has a Cyrillic vowel ratio >= 0.20; under a Latin layout
\* the engine corrects exactly the accepted words that pass its filter.
C7_EnToRuAcceptance ==
    is_ascii_word(probe.typed) =>
        /\ probe.en_to_ru <=>
              /\ ProbeEnRatioOutside \/ (ProbeEnRatioBelowQuarter /\ ~ProbeHasBigram)
              /\ ~ProbeRuRatioBelow(20)
        /\ probe.decision[1033].direction = "EnToRu" <=>
              /\ ProbePassesFilter
              /\ ProbeEnRatioOutside \/ (ProbeEnRatioBelowQuarter /\ ~ProbeHasBigram)
              /\ ~ProbeRuRatioBelow(20)

\* "hbhbe": vowel ratio 0.20 inside [0.15, 0.70], no bigram, accepted.
C7_Witness ==
    /\ probe.typed = <<104, 98, 104, 98, 101>>
    /\ ~ProbeEnRatioOutside
    /\ probe.en_to_ru
    /\ probe.decision[1033].direction = "EnToRu"

\* C8: a word is accepted for the Cyrillic->Latin correction exactly when it
\* looks like an English word (ASCII letters, vowel ratio in [0.15, 0.70],
\* and a strong bigram or a ratio >= 0.25) and the Cyrillic vowel ratio of
\* its transliteration is < 0.25, or < 0.45 with a strong bigram in the word;
\* under a Cyrillic layout the engine corrects no other word.
C8_RuToEnAcceptance ==
    /\ probe.ru_to_en <=>
          /\ is_ascii_word(probe.typed)
          /\ ~ProbeEnRatioOutside
          /\ ProbeHasBigram \/ ~ProbeEnRatioBelowQuarter
          /\ ProbeRuRatioBelow(25) \/ (ProbeHasBigram /\ ProbeRuRatioBelow(45))
    /\ probe.decision[1049].direction = "RuToEn" =>
          /\ is_ascii_word(probe.typed)
          /\ ~ProbeEnRatioOutside
          /\ ProbeHasBigram \/ ~ProbeEnRatioBelowQuarter
          /\ ProbeRuRatioBelow(25) \/ (ProbeHasBigram /\ ProbeRuRatioBelow(45))

\* "hhthe": accepted through the bigram with a Cyrillic vowel ratio of 0.40.
C8_Witness ==
    /\ probe.typed = <<104, 104, 116, 104, 101>>
    /\ probe.ru_to_en
    /\ probe.decision[1049].direction = "RuToEn"
    /\ ProbeHasBigram
    /\ ~ProbeRuRatioBelow(25)

\* C9: the two acceptance predicates never both hold of a word, and the
\* engine's decision follows the commit class: under a Latin layout it is
\* none or a request for 0x0419 with the transliteration, under a Cyrillic
\* layout none or a request for 0x0409 with the word as typed.
C9_OneDirection ==
    /\ ~(probe.en_to_ru /\ probe.ru_to_en)
    /\ \A l \in ProbeLangs :
        LET dec == probe.decision[l]
        IN  /\ primary_lang_id(l) = 9 =>
                  \/ dec.direction = "None"
                  \/ /\ dec.direction = "EnToRu"
                     /\ dec.lang_id = 1049
                     /\ dec.text = Translit(probe.typed)
            /\ primary_lang_id(l) \in {25, 34, 35} =>
                  \/ dec.direction = "None"
                  \/ /\ dec.direction = "RuToEn"
                     /\ dec.lang_id = 1033
                     /\ dec.text = probe.typed

\* "hohoh": corrected towards Latin under the Russian and the Ukrainian
\* layout, left alone under the English one, and rejected by the
\* Latin->Cyrillic predicate.
C9_Witness ==
    /\ probe.typed = <<104, 111, 104, 111, 104>>
    /\ probe.decision[1049].direction = "RuToEn"
    /\ probe.decision[1058].direction = "RuToEn"
    /\ probe.decision[1033].direction = "None"
    /\ probe.ru_to_en /\ ~probe.en_to_ru

\* C10 (as claimed): every character of the word buffer was appended after
\* the most recent boundary key-down (Space, Enter or another non-letter
\* key) delivered to the engine.
C10_BufferNeverSpansBoundary == staleLen = 0

\* The Space boundary handled last reached an accepted correction: the
\* guard permitted, and the decision procedure chose a direction for
\* preWord under the language id the commit resolved.
CorrectionAccepted ==
    /\ CommitHandled
    /\ Len(calls) >= 2
    /\ calls[1].res = OkFalse
    /\ Decision(preWord, CommitLang(calls[2])).direction # "None"

\* C11 (as claimed): once a send_backspaces call has delivered at least one
\* synthetic backspace event, whatever it then reports, send_unicode_text is
\* called for the word.
C11_ErasureStartedMeansInjectAttempted ==
    \A i \in 1..Len(calls) :
        (calls[i].op = "send_backspaces" /\ calls[i].sent > 0)
            => \E j \in (i + 1)..Len(calls) : calls[j].op = "send_unicode_text"

\* C12: for every accepted correction send_backspaces is called right after
\* the layout request, whatever that request returned, and the injection
\* follows whenever the erase reported Ok(true).
C12_LayoutRequestIsAdvisory ==
    CorrectionAccepted =>
        /\ Len(calls) >= 4
        /\ calls[3].op = "set_layout_by_lang_id"
        /\ calls[4].op = "send_backspaces"
        /\ calls[4].res = OkTrue =>
              (Len(calls) = 5 /\ calls[5].op = "send_unicode_text")

C12_Witness ==
    /\ CorrectionAccepted
    /\ preWord = W_ghbdtn
    /\ Len(calls) = 5
    /\ calls[3].res = OkFalse
    /\ calls[4].sent = 14
    /\ calls[5].op = "send_unicode_text"

\* The text the correction is to inject for the word: its key-position
\* transliteration when the request was for the Cyrillic layout, the word
\* itself when it was for the Latin one, followed by one space.
ExpectedInjection(word, target) ==
    IF target = LANG_RU
    THEN [k \in 1..Len(word) + 1 |->
            IF k = Len(word) + 1 THEN 32
            ELSE IF word[k] \in DOMAIN EnToRuTable THEN EnToRuTable[word[k]]
            ELSE word[k]]
    ELSE word \o <<32>>

\* C13: send_unicode_text is called only directly after a send_backspaces
\* call for the same word that returned Ok(true), and its text is the
\* corrected word followed by one space.
C13_InjectOnlyAfterConfirmedErase ==
    \A i \in 1..Len(calls) :
        calls[i].op = "send_unicode_text" =>
            /\ i >= 3
            /\ calls[i - 1].op = "send_backspaces"
            /\ calls[i - 1].res = OkTrue
            /\ calls[i - 2].op = "set_layout_by_lang_id"
            /\ calls[i].text = ExpectedInjection(preWord, calls[i - 2].lang)
            /\ \A j \in 1..Len(calls) : calls[j].op = "send_unicode_text" => j = i

C13_Witness ==
    /\ CorrectionAccepted
    /\ preWord = W_hello
    /\ Len(calls) = 5
    /\ calls[3].lang = LANG_EN
    /\ calls[4].res = OkTrue
    /\ calls[5].text = <<104, 101, 108, 108, 111, 32>>
    /\ calls[5].sent = 12

\* C20 (as claimed): when the guard at a Space boundary answers for a
\* foreground target that is missing or whose process name could not be
\* obtained, its answer is forbidden or an error, never permitted.
C20_GuardFailsClosed ==
    (CommitHandled /\ guardTarget \in {"no_window", "no_process"})
        => (calls[1].guard # "permitted" /\ calls[1].res \in {OkTrue, Err})

\* ------------------------------------------------------------------------
\* The application: main, keyboard hook, forwarding thread, Event Bus
\* ------------------------------------------------------------------------

\* Key transitions the desktop produces in one run
MaxKeys == 3

\* EventBus::new(256), scaled down
BusCapacity == 2

\* AppEvent::ShutdownRequested; AppEvent::Keyboard(ev) is the number of the
\* key transition ev reports, counted from 1 in the order the hook callback
\* saw them
ShutdownRequested == 0

\* main() has returned and the process is gone
Exited == mainPc.at \in {"done", "exit_err"}

Unchanged(keep) ==
    UNCHANGED <<config, engineVars, probes, enabled, platVars>> /\ UNCHANGED keep

\* --- start_keyboard_hook: the spawned thread ----------------------------

\* *guard = Some(events_tx)
HookRegister ==
    /\ ~Exited /\ hookPc = "register"
    /\ key_tx' = TRUE
    /\ hookPc' = "install"
    /\ Unchanged(<<mainPc, hookInstalled, ready, startResult, quitPosted, mpsc,
                   nextId, forwardPc, published, sub, joined, stopReturned,
                   lateEnqueue>>)

\* SetWindowsHookExW(WH_KEYBOARD_LL, ..): a hook handle or null
HookInstall(ok) ==
    /\ ~Exited /\ hookPc = "install"
    /\ hookInstalled' = ok
    /\ hookPc' = IF ok THEN "report_ok" ELSE "fail_clear"
    /\ Unchanged(<<mainPc, key_tx, ready, startResult, quitPosted, mpsc,
                   nextId, forwardPc, published, sub, joined, stopReturned,
                   lateEnqueue>>)

\* Installation failed and the registration is left in place
HookFailKeepsSender ==
    /\ ~Exited /\ hookPc = "fail_clear"
    /\ hookPc' = "fail_report"
    /\ Unchanged(<<mainPc, key_tx, hookInstalled, ready, startResult, quitPosted,
                   mpsc, nextId, forwardPc, published, sub, joined,
                   stopReturned, lateEnqueue>>)

\* if hook.is_null() { .. *guard = None; ..
HookFailClear ==
    /\ ~Exited /\ hookPc = "fail_clear"
    /\ key_tx' = FALSE
    /\ hookPc' = "fail_report"
    /\ Unchanged(<<mainPc, hookInstalled, ready, startResult, quitPosted, mpsc,
                   nextId, forwardPc, published, sub, joined, stopReturned,
                   lateEnqueue>>)

\* .. ready_tx.send(Err(..)); return; }  and  ready_tx.send(Ok(thread_id))
HookReport ==
    /\ ~Exited /\ hookPc \in {"fail_report", "report_ok"}
    /\ ready' = IF hookPc = "report_ok" THEN "Ok" ELSE "Err"
    /\ hookPc' = IF hookPc = "report_ok" THEN "loop" ELSE "fail_return"
    /\ Unchanged(<<mainPc, key_tx, hookInstalled, startResult, quitPosted, mpsc,
                   nextId, forwardPc, published, sub, joined, stopReturned,
                   lateEnqueue>>)

\* the closure returns after a failed installation
HookFailReturn ==
    /\ ~Exited /\ hookPc = "fail_return"
    /\ hookPc' = "exited"
    /\ Unchanged(<<mainPc, key_tx, hookInstalled, ready, startResult, quitPosted,
                   mpsc, nextId, forwardPc, published, sub, joined,
                   stopReturned, lateEnqueue>>)

\* keyboard_proc, called by the OS on the hook thread while it waits in
\* GetMessageW: the transition is sent on the registered sender, if any
keyboard_proc ==
    /\ ~Exited /\ hookPc = "loop" /\ hookInstalled
    /\ nextId < MaxKeys
    /\ nextId' = nextId + 1
    /\ mpsc' = IF key_tx THEN Append(mpsc, nextId + 1) ELSE mpsc
    /\ lateEnqueue' = (lateEnqueue \/ (key_tx /\ stopReturned))
    /\ Unchanged(<<mainPc, hookPc, key_tx, hookInstalled, ready, startResult,
                   quitPosted, forwardPc, published, sub, joined, stopReturned>>)

\* GetMessageW returns 0 for WM_QUIT: break
HookLoopQuit ==
    /\ ~Exited /\ hookPc = "loop" /\ quitPosted
    /\ hookPc' = "unhook"
    /\ Unchanged(<<mainPc, key_tx, hookInstalled, ready, startResult, quitPosted,
                   mpsc, nextId, forwardPc, published, sub, joined,
                   stopReturned, lateEnqueue>>)

\* The thread leaves its loop and goes on without uninstalling the hook
HookUnhookSkipped ==
    /\ ~Exited /\ hookPc = "unhook"
    /\ hookPc' = "clear"
    /\ Unchanged(<<mainPc, key_tx, hookInstalled, ready, startResult, quitPosted,
                   mpsc, nextId, forwardPc, published, sub, joined,
                   stopReturned, lateEnqueue>>)

\* UnhookWindowsHookEx(hook)
HookUnhook ==
    /\ ~Exited /\ hookPc = "unhook"
    /\ hookInstalled' = FALSE
    /\ hookPc' = "clear"
    /\ Unchanged(<<mainPc, key_tx, ready, startResult, quitPosted, mpsc, nextId,
                   forwardPc, published, sub, joined, stopReturned,
                   lateEnqueue>>)

\* *guard = None; the closure returns
HookClear ==
    /\ ~Exited /\ hookPc = "clear"
    /\ key_tx' = FALSE
    /\ hookPc' = "exited"
    /\ Unchanged(<<mainPc, hookInstalled, ready, startResult, quitPosted, mpsc,
                   nextId, forwardPc, published, sub, joined, stopReturned,
                   lateEnqueue>>)

\* --- the forwarding thread and the Event Bus ----------------------------

\* The newest queued event instead of the oldest
mpsc_recv_newest(q) == q[Len(q)]

\* mpsc::Receiver: the iterator yields the oldest queued event
mpsc_recv(q) == q[1]

\* The queue without the event ev
Without(q, ev) == SelectSeq(q, LAMBDA x : x # ev)

\* EventBus::send
bus_send(event) == published' = Append(published, event)

\* for ev in events_rx { bus.send(AppEvent::Keyboard(ev)); }
Forward ==
    /\ ~Exited /\ forwardPc = "running"
    /\ mpsc # <<>>
    /\ LET ev == mpsc_recv(mpsc)
       IN  /\ mpsc' = Without(mpsc, ev)
           /\ bus_send(ev)
    /\ Unchanged(<<mainPc, hookPc, key_tx, hookInstalled, ready, startResult,
                   quitPosted, nextId, forwardPc, sub, joined, stopReturned,
                   lateEnqueue>>)

\* The iterator ends once the queue is empty and the sender is dropped
ForwardEnd ==
    /\ ~Exited /\ forwardPc = "running"
    /\ mpsc = <<>> /\ ~key_tx /\ hookPc # "register"
    /\ forwardPc' = "done"
    /\ Unchanged(<<mainPc, hookPc, key_tx, hookInstalled, ready, startResult,
                   quitPosted, mpsc, nextId, published, sub, joined,
                   stopReturned, lateEnqueue>>)

\* broadcast::Receiver::recv: the receiver is behind by more than the
\* capacity and its next event is overwritten
Lagged(cursor) == cursor <= Len(published) - BusCapacity

\* The subscriber carries on after ShutdownRequested
OnShutdownIgnored(m) ==
    sub' = [sub EXCEPT ![m].cursor = @ + 1]

\* AppEvent::ShutdownRequested => { .. break; }  then Ok(())
OnShutdownRequested(m) ==
    sub' = [sub EXCEPT ![m].status = "ok", ![m].cursor = @ + 1]

\* One turn of a subscriber's loop: rx.recv().await.context(..)? and the
\* match on the event
SubRecv(m) ==
    /\ ~Exited /\ sub[m].status = "running"
    /\ IF Lagged(sub[m].cursor)
       THEN sub' = [sub EXCEPT ![m].status = "err"]
       ELSE /\ sub[m].cursor <= Len(published)
            /\ LET ev == published[sub[m].cursor]
               IN  IF ev = ShutdownRequested
                   THEN OnShutdownRequested(m)
                   ELSE sub' = [sub EXCEPT ![m].cursor = @ + 1,
                                           ![m].processed = Append(@, ev)]
    /\ Unchanged(<<mainPc, hookPc, key_tx, hookInstalled, ready, startResult,
                   quitPosted, mpsc, nextId, forwardPc, published, joined,
                   stopReturned, lateEnqueue>>)

\* --- main ---------------------------------------------------------------

\* The process ends: the runtime is dropped and cancels the tasks that are
\* still in their loop
Cancelled == [m \in ModuleNames |->
                IF sub[m].status = "running"
                THEN [sub[m] EXCEPT !.status = "aborted"] ELSE sub[m]]

\* main returns an error: `?` on a failed start or join. The controller, if
\* any, is dropped on the way out.
MainFails == mainPc' = At("drop_hook", 0)

\* should_start_hook, platform.start_keyboard_hook(): the thread is spawned
\* and main waits on ready_rx
MainStartHook ==
    /\ mainPc.at = "start_hook"
    /\ IF "layout_switcher" \in enabled
       THEN hookPc' = "register" /\ mainPc' = At("await_ready", 0)
       ELSE hookPc' = hookPc /\ mainPc' = At("start", 1)
    /\ Unchanged(<<key_tx, hookInstalled, ready, startResult, quitPosted, mpsc,
                   nextId, forwardPc, published, sub, joined, stopReturned,
                   lateEnqueue>>)

\* ready_rx.recv()??, .context("start keyboard hook")?, into_parts and the
\* spawn of the forwarding thread
MainHookReady ==
    /\ mainPc.at = "await_ready" /\ ready # "none"
    /\ startResult' = ready
    /\ IF ready = "Ok"
       THEN forwardPc' = "running" /\ mainPc' = At("start", 1)
       ELSE forwardPc' = forwardPc /\ mainPc' = At("exit_err", 0)
    /\ Unchanged(<<hookPc, key_tx, hookInstalled, ready, quitPosted, mpsc,
                   nextId, published, sub, joined, stopReturned, lateEnqueue>>)

\* After the i-th module: the next one, or what follows the loop
AfterModule(loop, i, then) ==
    IF i < Len(Modules) THEN At(loop, i + 1) ELSE At(then, 0)

\* One turn of `for module in modules`: skipped when not loaded or disabled,
\* else handles.push(module.start(ctx.clone()).await?). Only the spell
\* checker's start can fail (building its HTTP client).
MainStartModule(ok) ==
    /\ mainPc.at = "start"
    /\ LET m == Modules[mainPc.i]
       IN  IF m \notin enabled
           THEN ok /\ sub' = sub /\ mainPc' = AfterModule("start", mainPc.i, "wait")
           ELSE IF ok
           THEN /\ sub' = [sub EXCEPT ![m] = [status |-> "running",
                                              cursor |-> Len(published) + 1,
                                              processed |-> <<>>]]
                /\ mainPc' = AfterModule("start", mainPc.i, "wait")
           ELSE /\ m = "spell_checker"
                /\ sub' = [sub EXCEPT ![m].status = "start_failed"]
                /\ MainFails
    /\ Unchanged(<<hookPc, key_tx, hookInstalled, ready, startResult, quitPosted,
                   mpsc, nextId, forwardPc, published, joined, stopReturned,
                   lateEnqueue>>)

\* tokio::signal::ctrl_c() fires; runtime.bus.send(AppEvent::ShutdownRequested)
CtrlC ==
    /\ mainPc.at = "wait"
    /\ bus_send(ShutdownRequested)
    /\ mainPc' = At("join", 1)
    /\ Unchanged(<<hookPc, key_tx, hookInstalled, ready, startResult, quitPosted,
                   mpsc, nextId, forwardPc, sub, joined, stopReturned,
                   lateEnqueue>>)

\* One turn of `for handle in handles { handle.join().await?; }`
MainJoin ==
    /\ mainPc.at = "join"
    /\ LET m == Modules[mainPc.i]
       IN  CASE sub[m].status = "idle" ->
                  joined' = joined /\ mainPc' = AfterModule("join", mainPc.i, "stop_hook")
             [] sub[m].status = "ok" ->
                  /\ joined' = joined \cup {m}
                  /\ mainPc' = AfterModule("join", mainPc.i, "stop_hook")
             [] sub[m].status = "err" ->
                  joined' = joined \cup {m} /\ MainFails
             [] OTHER -> FALSE
    /\ Unchanged(<<hookPc, key_tx, hookInstalled, ready, startResult, quitPosted,
                   mpsc, nextId, forwardPc, published, sub, stopReturned,
                   lateEnqueue>>)

\* KeyboardHookController::stop, and Drop on the error path:
\* PostThreadMessageW(thread_id, WM_QUIT, 0, 0), its result ignored
MainStopHook(posted) ==
    /\ mainPc.at \in {"stop_hook", "drop_hook"}
    /\ IF startResult = "Ok"
       THEN /\ quitPosted' = (quitPosted \/ posted)
            /\ mainPc' = At(IF mainPc.at = "stop_hook" THEN "join_hook" ELSE "drop_join", 0)
            /\ sub' = sub
       ELSE /\ posted
            /\ quitPosted' = quitPosted
            /\ mainPc' = At(IF mainPc.at = "stop_hook" THEN "done" ELSE "exit_err", 0)
            /\ sub' = Cancelled
    /\ Unchanged(<<hookPc, key_tx, hookInstalled, ready, startResult, mpsc,
                   nextId, forwardPc, published, joined, stopReturned,
                   lateEnqueue>>)

\* join.join() of the hook thread returns; stop or drop is over
MainJoinHook ==
    /\ mainPc.at \in {"join_hook", "drop_join"}
    /\ hookPc = "exited"
    /\ stopReturned' = TRUE
    /\ IF mainPc.at = "join_hook"
       THEN mainPc' = At("join_forward", 0) /\ sub' = sub
       ELSE mainPc' = At("exit_err", 0) /\ sub' = Cancelled
    /\ Unchanged(<<hookPc, key_tx, hookInstalled, ready, startResult, quitPosted,
                   mpsc, nextId, forwardPc, published, joined, lateEnqueue>>)

\* forward.join() returns; main returns Ok(())
MainJoinForward ==
    /\ mainPc.at = "join_forward"
    /\ forwardPc = "done"
    /\ mainPc' = At("done", 0)
    /\ Unchanged(<<hookPc, key_tx, hookInstalled, ready, startResult, quitPosted,
                   mpsc, nextId, forwardPc, published, sub, joined,
                   stopReturned, lateEnqueue>>)

InitApp ==
    /\ config = DefaultConfig
    /\ EngineInit
    /\ probe = Apply(<<>>)
    /\ guardProbe = NoGuardProbe
    /\ langProbe = NoLangProbe
    /\ enabled \in SUBSET ModuleNames
    /\ AppInit
    /\ PlatInit

NextApp ==
    \/ MainStartHook
    \/ MainHookReady
    \/ \E ok \in BOOLEAN : MainStartModule(ok)
    \/ CtrlC
    \/ MainJoin
    \/ \E posted \in BOOLEAN : MainStopHook(posted)
    \/ MainJoinHook
    \/ MainJoinForward
    \/ HookRegister
    \/ \E ok \in BOOLEAN : HookInstall(ok)
    \/ HookFailClear
    \/ HookReport
    \/ HookFailReturn
    \/ keyboard_proc
    \/ HookLoopQuit
    \/ HookUnhook
    \/ HookClear
    \/ Forward
    \/ ForwardEnd
    \/ \E m \in ModuleNames : SubRecv(m)

SpecApp == InitApp /\ [][NextApp]_vars

\* The tokio scheduler runs every task that is ready
SpecAppFair == SpecApp /\ \A m \in ModuleNames : WF_vars(SubRecv(m))

\* ------------------------------------------------------------------------
\* Properties of the application
\* ------------------------------------------------------------------------

ShutdownPublished ==
    \E k \in 1..Len(published) : published[k] = ShutdownRequested

\* Where in the order of publication an event is
PublishedAt(ev) == CHOOSE k \in 1..Len(published) : published[k] = ev

\* No subscriber has handled a keyboard event that was published after the
\* shutdown signal.
NothingHandledAfterShutdown ==
    ShutdownPublished =>
        \A m \in ModuleNames : \A j \in 1..Len(sub[m].processed) :
            PublishedAt(sub[m].processed[j]) < PublishedAt(ShutdownRequested)

\* The task of module m is over: it returned, or the process ended under it.
TaskOver(m) == sub[m].status \in {"ok", "err", "aborted"}

StrictlyIncreasing(q) == \A a, b \in 1..Len(q) : a < b => q[a] < q[b]

\* C15: what a subscriber has handled is, in the same order, a subsequence
\* of the key transitions the hook callback saw: numbered in callback
\* order, the events are strictly increasing in the mpsc queue, on the bus
\* and in every subscriber.
C15_OrderPreserved ==
    /\ StrictlyIncreasing(mpsc)
    /\ StrictlyIncreasing(SelectSeq(published, LAMBDA ev : ev # ShutdownRequested))
    /\ \A m \in ModuleNames :
          /\ StrictlyIncreasing(sub[m].processed)
          /\ \A j \in 1..Len(sub[m].processed) : sub[m].processed[j] \in 1..nextId

C15_Witness ==
    /\ sub["layout_switcher"].processed = <<1, 2, 3>>
    /\ sub["spell_checker"].processed = <<2, 3>>

\* C16 (as claimed): a subscriber that fell behind by more than the bus
\* capacity loses only the oldest events and keeps running; its task never
\* ends with the receive error.
C16_LaggedSubscriberKeepsRunning ==
    \A m \in ModuleNames : sub[m].status # "err"

\* C17: when start_keyboard_hook has returned an error, no receiver was
\* handed out and no forwarding thread exists, the hook thread is past its
\* last statement, KEY_TX is None, the hook is not installed and no
\* KeyboardEvent was ever enqueued.
C17_FailedInstallLeavesNothing ==
    startResult = "Err" =>
        /\ forwardPc = "none"
        /\ ~stopReturned
        /\ hookPc \in {"fail_return", "exited"}
        /\ ~key_tx
        /\ ~hookInstalled
        /\ nextId = 0 /\ mpsc = <<>>
        /\ \A k \in 1..Len(published) : published[k] = ShutdownRequested

C17_Witness ==
    /\ startResult = "Err"
    /\ mainPc.at = "exit_err"
    /\ hookPc = "fail_return"

\* C18: after KeyboardHookController::stop (or drop) has returned the hook
\* thread has exited, the hook is uninstalled, KEY_TX is None and no
\* KeyboardEvent is enqueued any more; the thread never exits with the hook
\* still installed.
C18_StopTearsDown ==
    /\ stopReturned =>
          /\ hookPc = "exited"
          /\ ~hookInstalled
          /\ ~key_tx
          /\ ~lateEnqueue
    /\ hookPc = "exited" => ~hookInstalled

C18_Witness ==
    /\ stopReturned
    /\ mainPc.at = "join_forward"
    /\ nextId = MaxKeys
    /\ mpsc # <<>>

\* C19 (as claimed): when main is over, every enabled module that did not
\* itself fail (its start failed or its task ended with an error) was
\* started, ran until the shutdown signal and was joined.
C19_FailureIsContained ==
    Exited =>
        \A m \in enabled :
            \/ sub[m].status \in {"start_failed", "err"}
            \/ (sub[m].status = "ok" /\ m \in joined)

\* ------------------------------------------------------------------------
\* is_forbidden and map_en_to_ru applied to bounded inputs
\* ------------------------------------------------------------------------

\* Window titles: "", "My PW", "sh", "doc"
ProbeTitles == {<<>>, <<77, 121, 32, 80, 87>>, <<115, 104>>, <<100, 111, 99>>}

\* Process names: None, Some("Sh"), Some("ed"), Some("pw")
ProbeProcesses == {<<>>, << <<83, 104>> >>, << <<101, 100>> >>, << <<112, 119>> >>}

\* Block lists: [], ["pw"], [""], ["SH"]
ProbeLists == {<<>>, << <<112, 119>> >>, << <<>> >>, << <<83, 72>> >>}

ListNames == {"blocked_windows", "blocked_processes", "blocked_input_types"}

InitGuard ==
    /\ config = DefaultConfig
    /\ EngineInit
    /\ probe = Apply(<<>>)
    /\ guardProbe = NoGuardProbe
    /\ langProbe = NoLangProbe
    /\ enabled = ModuleNames
    /\ AppInit
    /\ PlatInit

\* is_forbidden for another foreground window, same block lists
ProbeWindow(title, process_name) ==
    /\ guardProbe' = ApplyGuard([title |-> title, process_name |-> process_name],
                                guardProbe.forbidden)
    /\ UNCHANGED <<config, engineVars, probe, langProbe, appVars, platVars>>

\* is_forbidden for the same window with one block list replaced
ProbeList(name, needles) ==
    /\ guardProbe' = ApplyGuard(guardProbe.info,
                                [guardProbe.forbidden EXCEPT ![name] = needles])
    /\ UNCHANGED <<config, engineVars, probe, langProbe, appVars, platVars>>

NextGuard ==
    \/ \E t \in ProbeTitles, pn \in ProbeProcesses : ProbeWindow(t, pn)
    \/ \E name \in ListNames, needles \in ProbeLists : ProbeList(name, needles)

SpecGuard == InitGuard /\ [][NextGuard]_vars

\* A configured substring occurs in a text, compared case-insensitively; the
\* empty substring does not count.
Occurs(needle, text) ==
    /\ needle # <<>>
    /\ Contains(LowerStr(text), LowerStr(needle))

\* The entries of all configured block lists
AllBlocked(forbidden) ==
    UNION {{forbidden[name][k] : k \in 1..Len(forbidden[name])} : name \in ListNames}

\* C21 (as claimed): is_forbidden is true exactly when some configured
\* substring, of whichever block list, occurs case-insensitively in the
\* window title or in the process name; an empty substring never matches.
C21_AnyListAnyDimension ==
    guardProbe.result <=>
        \E needle \in AllBlocked(guardProbe.forbidden) :
            \/ Occurs(needle, guardProbe.info.title)
            \/ /\ guardProbe.info.process_name # <<>>
               /\ Occurs(needle, guardProbe.info.process_name[1])

\* The upper-case form of a lower-case Cyrillic letter а..я
CyrillicUpper(ch) == IF ch \in 1072..1103 THEN ch - 32 ELSE ch

\* The key-position map that keeps the case of the Latin letter
CasePreservingMap(ch) ==
    IF is_ascii_uppercase(ch) THEN CyrillicUpper(EnToRuTable[ch + 32])
    ELSE IF is_ascii_lowercase(ch) THEN EnToRuTable[ch]
    ELSE ch

\* C22 (as claimed): the converted string is the character-wise map of the
\* typed one, an upper-case Latin letter giving the upper-case form of the
\* Cyrillic letter its lower-case form gives; the empty string maps to itself.
C22_MapPreservesCase ==
    /\ Len(probe.converted) = Len(probe.typed)
    /\ \A k \in 1..Len(probe.typed) :
          probe.converted[k] = CasePreservingMap(probe.typed[k])

\* ------------------------------------------------------------------------
\* Properties of the engine's event classification
\* ------------------------------------------------------------------------

\* The event handled last was a key-down that reached the match on the key
\* code: hotkey supported, auto-detect on, Alt not held.
Classified ==
    /\ lastEv.down
    /\ config.hotkey_ok /\ config.auto_detect /\ ~is_alt_down

KeyDownOf(vk) == lastEv = [vk |-> vk, down |-> TRUE]

C24_HotkeyFiresOncePerHold ==
    /\ holdEdges <= 1
    /\ hotkeyObserved => (lastEv.down /\ is_alt_down /\ is_shift_down /\ holdEdges = 1)

C24_Witness ==
    /\ holdEdges = 1
    /\ ~hotkeyObserved
    /\ lastEv.down /\ is_letter_vk(lastEv.vk)
    /\ is_alt_down /\ is_shift_down /\ hotkey_fired

\* C25 (as claimed): every hotkey-observed edge is followed by a request to
\* advance the layout (switch_to_next_layout, which checks the guard).
C25_AsClaimed ==
    hotkeyObserved =>
        \E i \in 1..Len(calls) : calls[i].op = "switch_to_next_layout"

\* C25: a hotkey-observed edge makes no platform call at all and leaves the
\* word buffer as it was.
C25_HotkeyOnlyObserved ==
    hotkeyObserved => (calls = <<>> /\ word_keys = preWord)

C25_Witness ==
    /\ hotkeyObserved
    /\ KeyDownOf(160)
    /\ preWord = W_hello
    /\ calls = <<>>

\* C26: a key-down handled while the engine considers Alt held leaves the
\* buffer as it was, and a key-down of an Alt or Shift key never appends.
C26_AltSuppressesAppend ==
    /\ (lastEv.down /\ is_alt_down) => word_keys = preWord
    /\ (lastEv.down /\ (is_alt_vk(lastEv.vk) \/ is_shift_vk(lastEv.vk)))
          => Len(word_keys) <= Len(preWord)

C26_Witness ==
    /\ config.auto_detect
    /\ lastEv.down /\ is_letter_vk(lastEv.vk)
    /\ is_alt_down /\ ~is_shift_down
    /\ preWord = W_thon
    /\ word_keys = preWord

\* C27: a key-up leaves the word buffer as it was and makes no platform
\* call.
C27_KeyUpOnlyTracksModifiers ==
    (~lastEv.down /\ lastEv \notin {NoEvent, ShutdownEvent}) =>
        /\ word_keys = preWord
        /\ calls = <<>>
        /\ guardTarget = "none"
        /\ ~hotkeyObserved

C27_Witness ==
    /\ lastEv = [vk |-> 72, down |-> FALSE]
    /\ config.hotkey_ok /\ config.auto_detect /\ ~is_alt_down
    /\ preWord = W_hello
    /\ word_keys = W_hello

Popped(word) == IF word = <<>> THEN <<>> ELSE SubSeq(word, 1, Len(word) - 1)

\* C30: with Alt not held, a Backspace key-down removes the last buffered
\* character (nothing on an empty buffer) and a letter key-down appends its
\* letter, neither with any platform call: letters and Backspaces act on the
\* buffer as pushes and pops.
C30_BackspacePopsLast ==
    /\ (Classified /\ KeyDownOf(VK_BACK)) =>
          (word_keys = Popped(preWord) /\ calls = <<>>)
    /\ (Classified /\ is_letter_vk(lastEv.vk)) =>
          /\ word_keys = preWord \o <<IF is_shift_down THEN lastEv.vk ELSE lastEv.vk + 32>>
          /\ calls = <<>>

C30_Witness ==
    /\ Classified /\ KeyDownOf(VK_BACK)
    /\ preWord = W_hello
    /\ word_keys = <<104, 101, 108, 108>>

\* ------------------------------------------------------------------------
\* Properties of one committed word: retries
\* ------------------------------------------------------------------------

\* The four operations claim C31 names
CommitOps ==
    {"is_forbidden_context", "set_layout_by_lang_id", "send_backspaces",
     "send_unicode_text"}

\* The call did not go through: the guard refused or failed, a mutating
\* operation returned Ok(false) or Err.
CallFailed(c) ==
    IF c.op = "is_forbidden_context" THEN c.res # OkFalse ELSE c.res # OkTrue

OncePerWord ==
    \A i, j \in 1..Len(calls) :
        (calls[i].op \in CommitOps /\ calls[i].op = calls[j].op) => i = j

\* C31 (as claimed): while one committed word is handled each of the four
\* operations is called at most once, and a call of any of them that fails
\* is the last platform call for the word, which is dropped.
C31_AsClaimed ==
    CommitHandled =>
        /\ OncePerWord
        /\ word_keys = <<>>
        /\ \A i \in 1..Len(calls) :
              (calls[i].op \in CommitOps /\ CallFailed(calls[i]))
                  => i = Len(calls)

\* C31: while one committed word is handled each of the four operations is
\* called at most once and the word is dropped; a guard query, erase or
\* injection that fails is the last platform call for the word, while a
\* failed layout request is followed by exactly the one erase attempt.
C31_NoRetry ==
    CommitHandled =>
        /\ OncePerWord
        /\ word_keys = <<>>
        /\ \A i \in 1..Len(calls) :
              (calls[i].op \in CommitOps /\ CallFailed(calls[i])) =>
                  IF calls[i].op = "set_layout_by_lang_id"
                  THEN /\ i < Len(calls)
                       /\ calls[i + 1].op = "send_backspaces"
                  ELSE i = Len(calls)

C31_Witness ==
    /\ CommitHandled
    /\ preWord = W_ghbdtn
    /\ Len(calls) = 4
    /\ calls[3].op = "set_layout_by_lang_id" /\ calls[3].res = OkFalse
    /\ calls[4].op = "send_backspaces" /\ calls[4].res = OkFalse
    /\ calls[4].sent = 1
    /\ word_keys = <<>>

\* ------------------------------------------------------------------------
\* The platform layer: active-window cache and switch_to_next_layout
\* ------------------------------------------------------------------------

\* Durations are counted in ticks of 125 ms and kept up to MaxElapsed ticks;
\* an Instant is kept as the ticks elapsed since it was taken.
MaxElapsed == 3

\* const ACTIVE_WINDOW_CACHE_TTL: Duration = Duration::from_millis(250)
ACTIVE_WINDOW_CACHE_TTL == 2

Older(elapsed) == Min(elapsed + 1, MaxElapsed)

\* HKL of a layout that is not installed (German, 0x04070407)
UninstalledLayout == 67568647

\* GetKeyboardLayout(thread_id)
CurrentLayouts ==
    {InstalledLayouts[i] : i \in 1..Len(InstalledLayouts)} \cup {UninstalledLayout}

\* GetKeyboardLayoutList: no layout reported, or the installed ones
LayoutLists == {<<>>, InstalledLayouts}

\* GetWindowThreadProcessId: 0 when the window is gone
ThreadIds == {0, 1}

\* struct ActiveWindowCache { hwnd_key, info, updated_at }; queried is
\* history: the ticks elapsed since the OS was asked for info.
ActiveWindowCache(hwnd_key, info, elapsed, queried) ==
    [hwnd_key |-> hwnd_key, info |-> info, elapsed |-> elapsed,
     queried |-> queried]

\* A cache entry served whatever window it was stored for
CacheHitAnyWindow(entry, hwnd_key) ==
    entry.elapsed <= ACTIVE_WINDOW_CACHE_TTL

\* entry.hwnd_key == hwnd_key && entry.updated_at.elapsed() <= ACTIVE_WINDOW_CACHE_TTL
CacheHit(entry, hwnd_key) ==
    /\ entry.hwnd_key = hwnd_key
    /\ entry.elapsed <= ACTIVE_WINDOW_CACHE_TTL

\* layouts.iter().position(|&hkl| hkl == current), 1-based; 0 is None
position(layouts, current) ==
    IF \E i \in 1..Len(layouts) : layouts[i] = current
    THEN CHOOSE i \in 1..Len(layouts) :
            /\ layouts[i] = current
            /\ \A j \in 1..(i - 1) : layouts[j] # current
    ELSE 0

\* The layout after the current one without wrapping at the end of the list
next_layout_no_wrap(layouts, current) ==
    LET idx == position(layouts, current)
    IN  IF idx = 0 THEN layouts[1] ELSE layouts[Min(idx + 1, Len(layouts))]

\* Some(idx) => layouts[(idx + 1) % layouts.len()], None => layouts[0]
next_layout(layouts, current) ==
    LET idx == position(layouts, current)
    IN  IF idx = 0 THEN layouts[1] ELSE layouts[(idx % Len(layouts)) + 1]

\* switch_to_next_layout from the ActiveWindowInfo on: thread_id, current,
\* layouts and posted are what the OS answers.
switch_to_next_layout(info, thread_id, current, layouts, posted) ==
    IF is_forbidden(info, ForbiddenConfig)
    THEN Returned(OkFalse, 0, 0, 0, 0, <<>>)
    ELSE IF thread_id = 0
    THEN Returned(OkFalse, 0, 0, 0, 0, <<>>)
    ELSE IF Len(layouts) = 0
    THEN Returned(OkFalse, 0, 0, thread_id, 0, <<>>)
    ELSE Returned(OkBool(posted), next_layout(layouts, current),
                  IF posted THEN 1 ELSE 0, thread_id, current, layouts)

\* What a platform function returns once it has the ActiveWindowInfo
Outcomes(fn, info) ==
    IF fn = "switch_to_next_layout"
    THEN {switch_to_next_layout(info, tid, cur, ls, p) :
            tid \in ThreadIds, cur \in CurrentLayouts, ls \in LayoutLists,
            p \in BOOLEAN}
    ELSE {Returned(OkBool(is_forbidden(info, ForbiddenConfig)), 0, 0, 0, 0, <<>>)}

\* if hwnd.is_null() { return Ok(true) } / { return Ok(false) }
NullOutcome(fn) ==
    Returned(IF fn = "switch_to_next_layout" THEN OkFalse ELSE OkTrue,
             0, 0, 0, 0, <<>>)

PlatFrame == UNCHANGED <<config, engineVars, probes, appVars>>

\* A thread enters fn: GetForegroundWindow(), then the first critical
\* section of get_window_info_cached.
PlatEnter(t, fn) ==
    /\ caller[t].pc = "idle"
    /\ fn = CallerFn(t)
    /\ IF fg = NullHwnd
       THEN /\ lastRet' = [fn |-> fn, hwnd |-> NullHwnd, kind |-> "no_window",
                           info |-> NoInfo, stale |-> 0, out |-> NullOutcome(fn)]
            /\ UNCHANGED caller
       ELSE IF cache # <<>> /\ CacheHit(cache[1], fg)
       THEN /\ \E out \in Outcomes(fn, cache[1].info) :
                  lastRet' = [fn |-> fn, hwnd |-> fg, kind |-> "hit",
                              info |-> cache[1].info,
                              stale |-> cache[1].queried, out |-> out]
            /\ UNCHANGED caller
       ELSE /\ caller' = [caller EXCEPT ![t] =
                            [pc |-> "query", fn |-> fn, hwnd |-> fg,
                             info |-> NoInfo, queried |-> 0]]
            /\ lastRet' = NoReturn
    /\ UNCHANGED <<fg, winTitle, cache>>
    /\ PlatFrame

\* get_window_title(hwnd)?, get_process_name(hwnd)
PlatQuery(t) ==
    /\ caller[t].pc = "query"
    /\ caller' = [caller EXCEPT ![t] =
                    [pc |-> "store", fn |-> caller[t].fn, hwnd |-> caller[t].hwnd,
                     info |-> [title |-> winTitle[caller[t].hwnd],
                               process_name |-> WindowProcess(caller[t].hwnd)],
                     queried |-> 0]]
    /\ lastRet' = NoReturn
    /\ UNCHANGED <<fg, winTitle, cache>>
    /\ PlatFrame

\* The second critical section, *guard = Some(..), and the rest of fn
PlatStore(t) ==
    /\ caller[t].pc = "store"
    /\ cache' = <<ActiveWindowCache(caller[t].hwnd, caller[t].info, 0,
                                    caller[t].queried)>>
    /\ \E out \in Outcomes(caller[t].fn, caller[t].info) :
          lastRet' = [fn |-> caller[t].fn, hwnd |-> caller[t].hwnd,
                      kind |-> "miss", info |-> caller[t].info,
                      stale |-> caller[t].queried, out |-> out]
    /\ caller' = [caller EXCEPT ![t] = IdleCaller]
    /\ UNCHANGED <<fg, winTitle>>
    /\ PlatFrame

\* 125 ms pass
Tick ==
    /\ cache' = IF cache = <<>> THEN <<>>
                ELSE <<[cache[1] EXCEPT !.elapsed = Older(@),
                                        !.queried = Older(@)]>>
    /\ caller' = [t \in Callers |->
                    IF caller[t].pc = "store"
                    THEN [caller[t] EXCEPT !.queried = Older(@)]
                    ELSE caller[t]]
    /\ lastRet' = NoReturn
    /\ UNCHANGED <<fg, winTitle>>
    /\ PlatFrame

\* Another window, or none, comes to the foreground
Focus(h) ==
    /\ h # fg
    /\ fg' = h
    /\ lastRet' = NoReturn
    /\ UNCHANGED <<winTitle, cache, caller>>
    /\ PlatFrame

\* The editor shows another document
Retitle(t) ==
    /\ t # winTitle[1]
    /\ winTitle' = [winTitle EXCEPT ![1] = t]
    /\ lastRet' = NoReturn
    /\ UNCHANGED <<fg, cache, caller>>
    /\ PlatFrame

InitPlat ==
    /\ config = DefaultConfig
    /\ EngineInit
    /\ probe = Apply(<<>>)
    /\ guardProbe = NoGuardProbe
    /\ langProbe = NoLangProbe
    /\ enabled = ModuleNames
    /\ AppInit
    /\ PlatInit

NextPlat ==
    \/ \E t \in Callers : PlatEnter(t, CallerFn(t))
    \/ \E t \in Callers : PlatQuery(t)
    \/ \E t \in Callers : PlatStore(t)
    \/ Tick
    \/ \E h \in PlatWindows \cup {NullHwnd} : Focus(h)
    \/ \E t \in EditorTitles : Retitle(t)

SpecPlat == InitPlat /\ [][NextPlat]_vars

\* C32: switch_to_next_layout with a window in the foreground that the guard
\* permits, a thread to ask and a non-empty layout list requests the layout
\* that follows the thread's current one in the list, the first after the
\* last, and the first when the current one is not in the list; with no
\* foreground window or a forbidden one it requests nothing and returns
\* Ok(false).
C32_NextLayoutWraps ==
    lastRet.fn = "switch_to_next_layout" =>
        LET out == lastRet.out
            n == Len(out.layouts)
        IN  /\ (lastRet.kind = "no_window"
                    \/ is_forbidden(lastRet.info, ForbiddenConfig)) =>
                  (out.requested = 0 /\ out.sent = 0 /\ out.res = OkFalse)
            /\ (lastRet.kind # "no_window"
                    /\ ~is_forbidden(lastRet.info, ForbiddenConfig)
                    /\ out.thread_id # 0 /\ n > 0) =>
                  /\ \A i \in 1..n :
                        out.layouts[i] = out.current =>
                            out.requested = out.layouts[IF i = n THEN 1 ELSE i + 1]
                  /\ (\A i \in 1..n : out.layouts[i] # out.current) =>
                        out.requested = out.layouts[1]
                  /\ out.res = OkBool(out.sent = 1)

\* The Greek layout, last in the list, is current and the English one, first
\* in the list, is requested.
C32_Witness ==
    /\ lastRet.fn = "switch_to_next_layout"
    /\ lastRet.kind = "miss"
    /\ lastRet.out.layouts = InstalledLayouts
    /\ lastRet.out.current = InstalledLayouts[3]
    /\ lastRet.out.requested = InstalledLayouts[1]
    /\ lastRet.out.res = OkTrue

\* The ActiveWindowInfo is one the OS can have reported for the window hwnd
ObtainedFor(info, hwnd) ==
    /\ hwnd \in PlatWindows
    /\ info.process_name = WindowProcess(hwnd)
    /\ info.title \in (IF hwnd = 1 THEN EditorTitles ELSE {WindowTitle(hwnd)})

\* C33: get_window_info_cached returns the cached info only when the entry's
\* hwnd_key is the queried handle and the entry is at most 250 ms old;
\* otherwise it returns what it queried itself and that result is the one
\* cache entry afterwards.  Either way the info was obtained for the
\* queried handle.
C33_CacheKeyedAndFresh ==
    /\ lastRet.kind = "hit" =>
          /\ cache # <<>>
          /\ cache[1].hwnd_key = lastRet.hwnd
          /\ cache[1].elapsed <= ACTIVE_WINDOW_CACHE_TTL
          /\ cache[1].info = lastRet.info
    /\ lastRet.kind = "miss" =>
          /\ Len(cache) = 1
          /\ cache[1].hwnd_key = lastRet.hwnd
          /\ cache[1].elapsed = 0
          /\ cache[1].info = lastRet.info
    /\ lastRet.kind \in {"hit", "miss"} => ObtainedFor(lastRet.info, lastRet.hwnd)

\* The entry is served for the blocked-process window when it is exactly
\* 250 ms old.
C33_Witness ==
    /\ lastRet.kind = "hit"
    /\ lastRet.hwnd = 3
    /\ cache[1].hwnd_key = 3
    /\ cache[1].elapsed = ACTIVE_WINDOW_CACHE_TTL

\* C34 (as claimed), for the returns served from the cache: the info
\* returned reflects an OS query made at most 250 ms before the return,
\* however the callers interleave.
C34_StalenessBounded ==
    lastRet.kind = "hit" => lastRet.stale <= ACTIVE_WINDOW_CACHE_TTL

\* ------------------------------------------------------------------------
\* Properties of the engine state between words
\* ------------------------------------------------------------------------

\* C35 (as claimed): no state carries over between words.  Two runs that
\* differ only in the word before a boundary and agree on the key events and
\* platform responses afterwards issue the same platform calls for the next
\* word exactly if the boundary leaves nothing of the earlier word in the
\* engine, that is, if the buffer is empty once a boundary key-down has
\* been handled.
C35_NoCrossWordState ==
    (lastEv.down /\ IsBoundaryVk(lastEv.vk)) => word_keys = <<>>

\* ------------------------------------------------------------------------
\* is_cyrillic_lang_id applied to every 16-bit language identifier
\* ------------------------------------------------------------------------

\* u16
U16 == 65536

\* Primary language ids are the low 10 bits, sublanguage ids the 6 bits above
SubLangUnit == 1024

\* Language ids the walk starts from: 0, English (US), Russian
StartLangs == {0, LANG_EN, LANG_RU}

InitLang ==
    /\ config = DefaultConfig
    /\ EngineInit
    /\ probe = Apply(<<>>)
    /\ guardProbe = NoGuardProbe
    /\ langProbe \in {ApplyLang(l) : l \in StartLangs}
    /\ enabled = ModuleNames
    /\ AppInit
    /\ PlatInit

\* The identifier with the next primary language id, same sublanguage
NextPrimary ==
    /\ langProbe' =
          ApplyLang((langProbe.lang_id \div SubLangUnit) * SubLangUnit
                        + ((langProbe.lang_id + 1) % SubLangUnit))
    /\ UNCHANGED <<config, engineVars, probe, guardProbe, appVars, platVars>>

\* The identifier with the next sublanguage id, same primary language
NextSubLang ==
    /\ langProbe' = ApplyLang((langProbe.lang_id + SubLangUnit) % U16)
    /\ UNCHANGED <<config, engineVars, probe, guardProbe, appVars, platVars>>

NextLang == NextPrimary \/ NextSubLang

SpecLang == InitLang /\ [][NextLang]_vars

\* The primary language ids of Russian, Ukrainian and Belarusian
CyrillicPrimaries == {25, 34, 35}

\* C36: a 16-bit language identifier is classified as Cyrillic exactly when
\* its low ten bits are 0x19, 0x22 or 0x23, whatever its six sublanguage
\* bits are; 0x0419, 0x0422 and 0x0423 are Cyrillic and 0x0409 is not.
C36_CyrillicByPrimaryId ==
    /\ langProbe.lang_id \in 0..(U16 - 1)
    /\ langProbe.cyrillic <=>
          \E sl \in 0..63, p \in CyrillicPrimaries :
              langProbe.lang_id = sl * 1024 + p
    /\ \E sl \in 0..63 :
          /\ langProbe.lang_id = sl * 1024 + langProbe.primary
          /\ langProbe.primary < 1024
    /\ langProbe.lang_id \in {1049, 1058, 1059} => langProbe.cyrillic
    /\ langProbe.lang_id = 1033 => ~langProbe.cyrillic

\* 0x0819 (Russian, Moldova): Cyrillic under another sublanguage
C36_Witness ==
    /\ langProbe.lang_id = 2073
    /\ langProbe.primary = 25
    /\ langProbe.cyrillic

\* ------------------------------------------------------------------------
\* The engine fed with single modifier keys
\* ------------------------------------------------------------------------

\* VK_MENU, VK_LMENU, VK_RMENU
AltVks == {18, 164, 165}

\* VK_SHIFT, VK_LSHIFT, VK_RSHIFT
ShiftVks == {16, 160, 161}

\* The keys pressed and released here: the six modifier codes, G and Space
TrackedVks == AltVks \cup ShiftVks \cup {71, VK_SPACE}

InitKeys ==
    /\ config = DefaultConfig
    /\ EngineInit
    /\ probe = Apply(<<>>)
    /\ guardProbe = NoGuardProbe
    /\ langProbe = NoLangProbe
    /\ enabled = ModuleNames
    /\ AppInit
    /\ PlatInit

\* The keyboard reports a transition of one key and the engine handles it;
\* a key that is down can repeat its key-down, only a key that is down is
\* released.
TrackedKey(vk, down) ==
    /\ down \/ vk \in heldKeys \/ vk \notin (AltVks \cup ShiftVks)
    /\ OnKeyboard(vk, down)
    /\ heldKeys' = IF vk \notin (AltVks \cup ShiftVks) THEN heldKeys
                   ELSE IF down THEN heldKeys \cup {vk}
                   ELSE heldKeys \ {vk}

NextKeys == \E vk \in TrackedVks, down \in BOOLEAN : TrackedKey(vk, down)

SpecKeys == InitKeys /\ [][NextKeys]_vars

\* C37 (as claimed): the Alt flag is true exactly when some Alt key has had a
\* key-down with no later key-up of that key, and likewise the Shift flag
\* for the Shift keys; releasing one of two held keys leaves the flag true.
C37_FlagsTrackHeldKeys ==
    /\ is_alt_down <=> (heldKeys \cap AltVks # {})
    /\ is_shift_down <=> (heldKeys \cap ShiftVks # {})

\* ------------------------------------------------------------------------
\* The engine's own synthetic input coming back through the hook
\* ------------------------------------------------------------------------

\* C38: after a correction has delivered synthetic input, the Backspace and
\* VK_PACKET transitions that input produces are handled without any
\* platform call - no guard query, no layout request, erase or injection -
\* and with the buffer empty throughout.
C38_NoSelfTrigger ==
    echo =>
        /\ word_keys = <<>>
        /\ lastEv.vk \in SynthVks => calls = <<>>

\* The up transition of a Unicode packet, handled after a correction
C38_Witness ==
    /\ echo
    /\ lastEv = [vk |-> VK_PACKET, down |-> FALSE]
    /\ word_keys = <<>>
    /\ calls = <<>>

\* ------------------------------------------------------------------------
\* The engine under an unsupported hotkey
\* ------------------------------------------------------------------------

\* C39: when the configured hotkey, lower-cased, is not "alt+shift", no
\* keyboard event changes the modifier flags, the hotkey latch or the word
\* buffer and none leads to a platform call, with auto_detect enabled or
\* not; the loop still ends on ShutdownRequested and on nothing else.
C39_UnsupportedHotkeyIgnoresKeys ==
    LowerStr(config.hotkey) # HotkeyAltShift =>
        /\ ~is_alt_down /\ ~is_shift_down /\ ~hotkey_fired
        /\ word_keys = <<>>
        /\ calls = <<>> /\ guardTarget = "none"
        /\ running <=> lastEv # ShutdownEvent

\* An Alt key-down handled under "ctrl+space" with auto_detect enabled
C39_Witness ==
    /\ LowerStr(config.hotkey) # HotkeyAltShift
    /\ config.auto_detect
    /\ lastEv = [vk |-> 18, down |-> TRUE]
    /\ ~is_alt_down
    /\ running

\* ------------------------------------------------------------------------
\* The shutdown sequence of main
\* ------------------------------------------------------------------------

\* Every thread and task that can take a step eventually takes it: main, the
\* hook thread once WM_QUIT is queued, the forwarding thread and the
\* subscriber tasks.
SpecAppLive ==
    /\ SpecApp
    /\ WF_vars(MainJoin)
    /\ WF_vars(\E posted \in BOOLEAN : MainStopHook(posted))
    /\ WF_vars(MainJoinHook)
    /\ WF_vars(MainJoinForward)
    /\ WF_vars(HookLoopQuit)
    /\ WF_vars(HookUnhook)
    /\ WF_vars(HookClear)
    /\ WF_vars(Forward)
    /\ WF_vars(ForwardEnd)
    /\ \A m \in ModuleNames : WF_vars(SubRecv(m))

\* main has returned Ok(()) after joining every started module task, the
\* hook thread and the forwarding thread
ShutdownComplete ==
    /\ mainPc.at = "done"
    /\ \A m \in ModuleNames : sub[m].status # "idle" => m \in joined
    /\ hookPc \in {"none", "exited"}
    /\ forwardPc \in {"none", "done"}

\* The OS refused to queue WM_QUIT for the hook thread
QuitLost ==
    mainPc.at \in {"join_hook", "drop_join"} /\ ~quitPosted

\* C40 (as claimed): once ShutdownRequested is published after the
\* interrupt, the shutdown sequence completes - every started module task
\* is joined, the hook thread is stopped and joined, the forwarding thread
\* ends and is joined, and main returns - however the key events in flight
\* interleave.  A WM_QUIT the OS did not queue is not held against it.
C40_ShutdownCompletes ==
    ShutdownPublished ~> (ShutdownComplete \/ QuitLost)

====
